---------------------------- MODULE Spec2Model ----------------------------
(***************************************************************************)
(* A model of the multilingual safety filters of this repository:         *)
(*   SafetyFilter      src/safety_filter.py                               *)
(*   TextSafetyLayer   src/text_safety_layer.py                           *)
(*   SafetyLayer       src/safety_layer_text.py                           *)
(* A text is a sequence of Unicode code points (Python str), so that      *)
(* lower(), isupper(), the regular expression \bword\b and the script     *)
(* ranges of detect_language are computed as the code computes them.      *)
(***************************************************************************)
EXTENDS Integers, Sequences, FiniteSets

VARIABLES
  BETTER_PROFANITY_AVAILABLE, \* safety_filter.py:36-41, the import's outcome
  CENSOR_WORDSET,             \* the word list of the process-wide `profanity`
  engine,                     \* the constructed engine, or NoEngine
  raised,                     \* what the last constructor call raised
  call,                       \* the last filter call and its result, or NoCall
  threads,                    \* the filter calls in progress on the engine,
                              \* one for each concurrent caller
  engine2                     \* a second engine constructed in the same
                              \* process, or NoEngine

vars == <<BETTER_PROFANITY_AVAILABLE, CENSOR_WORDSET, engine, raised, call,
          threads, engine2>>

(***************************************************************************)
(* Python str operations on code point sequences.  The texts of the model *)
(* are over ASCII and the Devanagari, Tamil and Telugu blocks; only the   *)
(* ASCII letters are cased there.                                         *)
(***************************************************************************)
IsAsciiUpper(c) == c \in 65..90
IsAsciiLower(c) == c \in 97..122

\* str.lower(), one code point
LowerChar(c) == IF IsAsciiUpper(c) THEN c + 32 ELSE c

\* str.upper(), one code point
UpperChar(c) == IF IsAsciiLower(c) THEN c - 32 ELSE c

Lower(s) == [i \in 1..Len(s) |-> LowerChar(s[i])]
Upper(s) == [i \in 1..Len(s) |-> UpperChar(s[i])]

\* str.isupper(): at least one cased character and no lowercase one
IsUpper(s) ==
  /\ \E i \in 1..Len(s) : IsAsciiUpper(s[i])
  /\ \A i \in 1..Len(s) : ~IsAsciiLower(s[i])

\* str.capitalize(): first character uppercased, the rest lowercased
Capitalize(s) ==
  [i \in 1..Len(s) |-> IF i = 1 THEN UpperChar(s[i]) ELSE LowerChar(s[i])]

\* str.isspace() of one code point (ASCII whitespace)
IsSpace(c) == c \in (9..13) \cup (28..32)

\* `w in t` for strings: w occurs in t as a contiguous substring
Contains(t, w) ==
  \/ w = <<>>
  \/ \E i \in 1..(Len(t) - Len(w) + 1) :
       t[i] = w[1] /\ SubSeq(t, i, i + Len(w) - 1) = w

\* '*' * len(word)
Mask(word) == [i \in 1..Len(word) |-> 42]

(***************************************************************************)
(* The regular expression of _replace_word: r'\b' + re.escape(word) +     *)
(* r'\b' with re.IGNORECASE, substituted at every non-overlapping match,  *)
(* leftmost first.  \w of a str pattern is str.isalnum() or '_': letters  *)
(* and digits are word characters, the combining vowel signs and viramas  *)
(* (categories Mn, Mc) of the Indic blocks are not.                       *)
(***************************************************************************)
IsWordChar(c) ==
  \/ c \in (48..57) \cup (65..90) \cup (97..122) \cup {95}
  \* Devanagari U+0900..U+097F
  \/ c \in (2308..2361) \cup {2365, 2384} \cup (2392..2401) \cup (2406..2415)
           \cup (2417..2431)
  \* Tamil U+0B80..U+0BFF
  \/ c \in {2947} \cup (2949..2954) \cup (2958..2960) \cup (2962..2965)
           \cup (2969..2970) \cup {2972} \cup (2974..2975) \cup (2979..2980)
           \cup (2984..2986) \cup (2990..3001) \cup {3024} \cup (3046..3058)
  \* Telugu U+0C00..U+0C7F
  \/ c \in (3077..3084) \cup (3086..3088) \cup (3090..3112) \cup (3114..3129)
           \cup {3133} \cup (3160..3162) \cup {3165} \cup (3168..3169)
           \cup (3174..3183) \cup (3192..3198)

\* \b before position p of t (p in 1..Len(t)+1): exactly one side is \w
WordBoundary(t, p) ==
  LET before == p > 1 /\ IsWordChar(t[p - 1])
      after  == p <= Len(t) /\ IsWordChar(t[p])
  IN  before # after

\* the pattern matches t at position i
MatchAt(t, word, i) ==
  /\ i + Len(word) - 1 <= Len(t)
  /\ \A k \in 1..Len(word) : LowerChar(t[i + k - 1]) = LowerChar(word[k])
  /\ WordBoundary(t, i)
  /\ WordBoundary(t, i + Len(word))

(***************************************************************************)
(* The word lists and synonym tables of the three engines, entry by entry *)
(* as the source lists them; a word is its code points, the comment gives *)
(* its spelling.                                                          *)
(***************************************************************************)
highly_abusive ==
  [ en |-> <<
      <<102, 117, 99, 107>>,  \* "fuck"
      <<102, 117, 99, 107, 105, 110, 103>>,  \* "fucking"
      <<115, 104, 105, 116>>,  \* "shit"
      <<98, 105, 116, 99, 104>>,  \* "bitch"
      <<97, 115, 115, 104, 111, 108, 101>>,  \* "asshole"
      <<98, 97, 115, 116, 97, 114, 100>>,  \* "bastard"
      <<100, 105, 99, 107, 104, 101, 97, 100>>,  \* "dickhead"
      <<112, 114, 105, 99, 107>>,  \* "prick"
      <<99, 111, 99, 107>>,  \* "cock"
      <<112, 117, 115, 115, 121>>,  \* "pussy"
      <<99, 114, 97, 112>>,  \* "crap"
      <<100, 97, 109, 110>>,  \* "damn"
      <<104, 101, 108, 108>>,  \* "hell"
      <<97, 115, 115>>,  \* "ass"
      <<100, 117, 109, 98, 97, 115, 115>>  \* "dumbass"
    >>,
    hi |-> <<
      <<2330, 2370, 2340, 2367, 2351, 2366>>,  \* U+091A U+0942 U+0924 U+093F U+092F U+093E
      <<99, 104, 117, 116, 105, 121, 97>>,  \* "chutiya"
      <<2350, 2366, 2342, 2352, 2330, 2379, 2342>>,  \* U+092E U+093E U+0926 U+0930 U+091A U+094B U+0926
      <<109, 97, 100, 97, 114, 99, 104, 111, 100>>,  \* "madarchod"
      <<2348, 2361, 2344, 2330, 2379, 2342>>,  \* U+092C U+0939 U+0928 U+091A U+094B U+0926
      <<98, 101, 104, 101, 110, 99, 104, 111, 100>>,  \* "behenchod"
      <<2349, 2379, 2360, 2337, 2368, 2325, 2375>>,  \* U+092D U+094B U+0938 U+0921 U+0940 U+0915 U+0947
      <<98, 104, 111, 115, 97, 100, 105, 107, 101>>,  \* "bhosadike"
      <<2354, 2380, 2337, 2366>>,  \* U+0932 U+094C U+0921 U+093E
      <<108, 97, 117, 100, 97>>,  \* "lauda"
      <<2354, 2306, 2337>>,  \* U+0932 U+0902 U+0921
      <<108, 117, 110, 100>>,  \* "lund"
      <<2327, 2366, 2306, 2337, 2370>>,  \* U+0917 U+093E U+0902 U+0921 U+0942
      <<103, 97, 110, 100, 117>>,  \* "gandu"
      <<2333, 2366, 2335, 2370>>,  \* U+091D U+093E U+091F U+0942
      <<106, 104, 97, 116, 117>>,  \* "jhatu"
      <<2349, 2379, 2360, 2337, 2366>>,  \* U+092D U+094B U+0938 U+0921 U+093E
      <<98, 104, 111, 115, 100, 97>>,  \* "bhosda"
      <<2352, 2366, 2306, 2337>>,  \* U+0930 U+093E U+0902 U+0921
      <<114, 97, 110, 100, 105>>,  \* "randi"
      <<2330, 2369, 2340, 2367, 2351, 2366, 2346, 2366>>,  \* U+091A U+0941 U+0924 U+093F U+092F U+093E U+092A U+093E
      <<99, 104, 117, 116, 105, 121, 97, 112, 97>>,  \* "chutiyapa"
      <<2348, 2325, 2330, 2379, 2342>>,  \* U+092C U+0915 U+091A U+094B U+0926
      <<98, 97, 107, 99, 104, 111, 100>>  \* "bakchod"
    >>,
    ta |-> <<
      <<2986, 3009, 2979, 3021, 2975, 3006>>,  \* U+0BAA U+0BC1 U+0BA3 U+0BCD U+0B9F U+0BBE
      <<112, 117, 110, 100, 97>>,  \* "punda"
      <<2963, 2980, 3021, 2980, 3006>>,  \* U+0B93 U+0BA4 U+0BCD U+0BA4 U+0BBE
      <<111, 116, 104, 97>>,  \* "otha"
      <<2963, 2990, 3021, 2986, 3009>>,  \* U+0B93 U+0BAE U+0BCD U+0BAA U+0BC1
      <<111, 109, 98, 117>>,  \* "ombu"
      <<2980, 3015, 2997, 2975, 3007, 2991, 3006>>,  \* U+0BA4 U+0BC7 U+0BB5 U+0B9F U+0BBF U+0BAF U+0BBE
      <<116, 104, 101, 118, 105, 100, 105, 121, 97>>,  \* "thevidiya"
      <<2965, 3009, 2980, 3021, 2980, 3007>>,  \* U+0B95 U+0BC1 U+0BA4 U+0BCD U+0BA4 U+0BBF
      <<107, 111, 111, 116, 104, 105>>,  \* "koothi"
      <<2986, 3010, 2994, 3021>>,  \* U+0BAA U+0BC2 U+0BB2 U+0BCD
      <<112, 117, 108>>  \* "pul"
    >>,
    te |-> <<
      <<3114, 3138, 3093, 3137>>,  \* U+0C2A U+0C42 U+0C15 U+0C41
      <<112, 111, 111, 107, 117>>,  \* "pooku"
      <<3122, 3074, 3105>>,  \* U+0C32 U+0C02 U+0C21
      <<108, 97, 110, 100>>,  \* "land"
      <<3116, 3147, 3105, 3137>>,  \* U+0C2C U+0C4B U+0C21 U+0C41
      <<98, 111, 100, 117>>,  \* "bodu"
      <<3093, 3138, 3108, 3137, 3120, 3137>>,  \* U+0C15 U+0C42 U+0C24 U+0C41 U+0C30 U+0C41
      <<107, 111, 116, 104, 117, 114, 117>>,  \* "kothuru"
      <<3114, 3138, 3120, 3135>>,  \* U+0C2A U+0C42 U+0C30 U+0C3F
      <<112, 111, 111, 114, 105>>,  \* "poori"
      <<108, 97, 110, 106, 97, 107, 111, 100, 117, 107, 117>>  \* "lanjakoduku"
    >> ]

racial_slurs ==
  [ en |-> <<
      <<115, 116, 117, 112, 105, 100>>,  \* "stupid"
      <<105, 100, 105, 111, 116>>,  \* "idiot"
      <<102, 111, 111, 108>>,  \* "fool"
      <<100, 117, 109, 98>>,  \* "dumb"
      <<109, 111, 114, 111, 110>>,  \* "moron"
      <<114, 101, 116, 97, 114, 100>>,  \* "retard"
      <<114, 101, 116, 97, 114, 100, 101, 100>>,  \* "retarded"
      <<105, 109, 98, 101, 99, 105, 108, 101>>,  \* "imbecile"
      <<106, 101, 114, 107>>,  \* "jerk"
      <<108, 111, 115, 101, 114>>,  \* "loser"
      <<115, 99, 117, 109>>,  \* "scum"
      <<116, 114, 97, 115, 104>>,  \* "trash"
      <<103, 97, 114, 98, 97, 103, 101>>,  \* "garbage"
      <<119, 111, 114, 116, 104, 108, 101, 115, 115>>,  \* "worthless"
      <<112, 97, 116, 104, 101, 116, 105, 99>>  \* "pathetic"
    >>,
    hi |-> <<
      <<2348, 2375, 2357, 2325, 2370, 2347, 2364>>,  \* U+092C U+0947 U+0935 U+0915 U+0942 U+092B U+093C
      <<2348, 2375, 2357, 2325, 2370, 2347>>,  \* U+092C U+0947 U+0935 U+0915 U+0942 U+092B
      <<98, 101, 119, 97, 107, 111, 111, 102>>,  \* "bewakoof"
      <<98, 101, 119, 97, 107, 117, 102>>,  \* "bewakuf"
      <<2350, 2370, 2352, 2381, 2326>>,  \* U+092E U+0942 U+0930 U+094D U+0916
      <<2327, 2343, 2366>>,  \* U+0917 U+0927 U+093E
      <<103, 97, 100, 104, 97>>,  \* "gadha"
      <<2313, 2354, 2381, 2354, 2370>>,  \* U+0909 U+0932 U+094D U+0932 U+0942
      <<117, 108, 108, 117>>,  \* "ullu"
      <<2361, 2352, 2366, 2350, 2368>>,  \* U+0939 U+0930 U+093E U+092E U+0940
      <<104, 97, 114, 97, 109, 105>>,  \* "harami"
      <<2361, 2352, 2366, 2350, 2332, 2364, 2366, 2342, 2366>>,  \* U+0939 U+0930 U+093E U+092E U+091C U+093C U+093E U+0926 U+093E
      <<104, 97, 114, 97, 109, 122, 97, 100, 97>>,  \* "haramzada"
      <<2325, 2350, 2368, 2344, 2366>>,  \* U+0915 U+092E U+0940 U+0928 U+093E
      <<107, 97, 109, 105, 110, 97>>,  \* "kamina"
      <<2325, 2350, 2368, 2344, 2375>>,  \* U+0915 U+092E U+0940 U+0928 U+0947
      <<107, 97, 109, 105, 110, 101>>,  \* "kamine"
      <<2325, 2369, 2340, 2381, 2340, 2366>>,  \* U+0915 U+0941 U+0924 U+094D U+0924 U+093E
      <<107, 117, 116, 116, 97>>,  \* "kutta"
      <<2325, 2369, 2340, 2381, 2340, 2375>>,  \* U+0915 U+0941 U+0924 U+094D U+0924 U+0947
      <<107, 117, 116, 116, 101>>,  \* "kutte"
      <<2360, 2369, 2309, 2352>>,  \* U+0938 U+0941 U+0905 U+0930
      <<115, 117, 97, 114>>,  \* "suar"
      <<2348, 2325, 2357, 2366, 2360>>,  \* U+092C U+0915 U+0935 U+093E U+0938
      <<98, 97, 107, 119, 97, 115>>,  \* "bakwas"
      <<2327, 2366, 2354, 2368>>,  \* U+0917 U+093E U+0932 U+0940
      <<103, 97, 97, 108, 105>>,  \* "gaali"
      <<2327, 2306, 2342, 2366>>,  \* U+0917 U+0902 U+0926 U+093E
      <<103, 97, 110, 100, 97>>,  \* "ganda"
      <<2348, 2381, 2354, 2337, 2368, 32, 2347, 2370, 2354>>,  \* U+092C U+094D U+0932 U+0921 U+0940 U+0020 U+092B U+0942 U+0932
      <<98, 108, 111, 111, 100, 121, 32, 102, 111, 111, 108>>  \* "bloody fool"
    >>,
    ta |-> <<
      <<2990, 3009, 2975, 3021, 2975, 3006, 2995, 3021>>,  \* U+0BAE U+0BC1 U+0B9F U+0BCD U+0B9F U+0BBE U+0BB3 U+0BCD
      <<109, 117, 116, 116, 97, 97, 108>>,  \* "muttaal"
      <<2986, 3016, 2980, 3021, 2980, 3007, 2991, 2990, 3021>>,  \* U+0BAA U+0BC8 U+0BA4 U+0BCD U+0BA4 U+0BBF U+0BAF U+0BAE U+0BCD
      <<112, 97, 105, 116, 104, 105, 121, 97, 109>>,  \* "paithiyam"
      <<2965, 2996, 3009, 2980, 3016>>,  \* U+0B95 U+0BB4 U+0BC1 U+0BA4 U+0BC8
      <<107, 97, 122, 104, 117, 100, 104, 97, 105>>,  \* "kazhudhai"
      <<2984, 3006, 2991, 3021>>,  \* U+0BA8 U+0BBE U+0BAF U+0BCD
      <<110, 97, 97, 105>>,  \* "naai"
      <<2986, 2985, 3021, 2985, 3007>>,  \* U+0BAA U+0BA9 U+0BCD U+0BA9 U+0BBF
      <<112, 97, 110, 110, 105>>,  \* "panni"
      <<2986, 2979, 3021, 2979, 3007>>,  \* U+0BAA U+0BA3 U+0BCD U+0BA3 U+0BBF
      <<108, 111, 111, 115, 117>>,  \* "loosu"
      <<112, 111, 114, 117, 107, 107, 105>>,  \* "porukki"
      <<107, 105, 114, 117, 107, 107, 117>>  \* "kirukku"
    >>,
    te |-> <<
      <<3118, 3138, 3120, 3149, 3094, 3137, 3105, 3137>>,  \* U+0C2E U+0C42 U+0C30 U+0C4D U+0C16 U+0C41 U+0C21 U+0C41
      <<109, 111, 111, 114, 107, 104, 104, 117, 100, 117>>,  \* "moorkhhudu"
      <<3125, 3142, 3111, 3125>>,  \* U+0C35 U+0C46 U+0C27 U+0C35
      <<118, 101, 100, 97, 118, 97>>,  \* "vedava"
      <<3095, 3134, 3105, 3135, 3110, 3143, 3105, 3137>>,  \* U+0C17 U+0C3E U+0C21 U+0C3F U+0C26 U+0C47 U+0C21 U+0C41
      <<103, 97, 100, 105, 100, 104, 101, 100, 117>>,  \* "gadidhedu"
      <<3095, 3147, 3125, 3137>>,  \* U+0C17 U+0C4B U+0C35 U+0C41
      <<103, 111, 118, 117>>,  \* "govu"
      <<3093, 3137, 3093, 3149, 3093>>,  \* U+0C15 U+0C41 U+0C15 U+0C4D U+0C15
      <<107, 117, 107, 107, 97>>,  \* "kukka"
      <<3114, 3074, 3110, 3135>>,  \* U+0C2A U+0C02 U+0C26 U+0C3F
      <<112, 97, 110, 100, 105>>,  \* "pandi"
      <<3110, 3149, 3120, 3147, 3129, 3135>>,  \* U+0C26 U+0C4D U+0C30 U+0C4B U+0C39 U+0C3F
      <<100, 114, 111, 104, 105>>,  \* "drohi"
      <<103, 97, 100, 117>>  \* "gadu"
    >> ]

synonyms ==
  [ en |-> <<
      << <<102, 117, 99, 107>>,  \* "fuck"
         <<101, 120, 116, 114, 101, 109, 101, 108, 121, 32, 98, 97, 100>> >>,  \* -> "extremely bad"
      << <<102, 117, 99, 107, 105, 110, 103>>,  \* "fucking"
         <<118, 101, 114, 121>> >>,  \* -> "very"
      << <<115, 104, 105, 116>>,  \* "shit"
         <<110, 111, 110, 115, 101, 110, 115, 101>> >>,  \* -> "nonsense"
      << <<98, 105, 116, 99, 104>>,  \* "bitch"
         <<100, 105, 102, 102, 105, 99, 117, 108, 116, 32, 112, 101, 114, 115, 111, 110>> >>,  \* -> "difficult person"
      << <<97, 115, 115, 104, 111, 108, 101>>,  \* "asshole"
         <<117, 110, 112, 108, 101, 97, 115, 97, 110, 116, 32, 112, 101, 114, 115, 111, 110>> >>,  \* -> "unpleasant person"
      << <<98, 97, 115, 116, 97, 114, 100>>,  \* "bastard"
         <<100, 105, 102, 102, 105, 99, 117, 108, 116, 32, 112, 101, 114, 115, 111, 110>> >>,  \* -> "difficult person"
      << <<100, 105, 99, 107, 104, 101, 97, 100>>,  \* "dickhead"
         <<114, 117, 100, 101, 32, 112, 101, 114, 115, 111, 110>> >>,  \* -> "rude person"
      << <<112, 114, 105, 99, 107>>,  \* "prick"
         <<97, 110, 110, 111, 121, 105, 110, 103, 32, 112, 101, 114, 115, 111, 110>> >>,  \* -> "annoying person"
      << <<100, 97, 109, 110>>,  \* "damn"
         <<100, 97, 114, 110>> >>,  \* -> "darn"
      << <<104, 101, 108, 108>>,  \* "hell"
         <<104, 101, 99, 107>> >>,  \* -> "heck"
      << <<99, 114, 97, 112>>,  \* "crap"
         <<110, 111, 110, 115, 101, 110, 115, 101>> >>,  \* -> "nonsense"
      << <<97, 115, 115>>,  \* "ass"
         <<102, 111, 111, 108>> >>,  \* -> "fool"
      << <<100, 117, 109, 98, 97, 115, 115>>,  \* "dumbass"
         <<109, 105, 115, 103, 117, 105, 100, 101, 100, 32, 112, 101, 114, 115, 111, 110>> >>,  \* -> "misguided person"
      << <<115, 116, 117, 112, 105, 100>>,  \* "stupid"
         <<117, 110, 119, 105, 115, 101>> >>,  \* -> "unwise"
      << <<105, 100, 105, 111, 116>>,  \* "idiot"
         <<105, 110, 101, 120, 112, 101, 114, 105, 101, 110, 99, 101, 100, 32, 112, 101, 114, 115, 111, 110>> >>,  \* -> "inexperienced person"
      << <<102, 111, 111, 108>>,  \* "fool"
         <<110, 97, 105, 118, 101, 32, 112, 101, 114, 115, 111, 110>> >>,  \* -> "naive person"
      << <<100, 117, 109, 98>>,  \* "dumb"
         <<117, 110, 105, 110, 102, 111, 114, 109, 101, 100>> >>,  \* -> "uninformed"
      << <<109, 111, 114, 111, 110>>,  \* "moron"
         <<99, 111, 110, 102, 117, 115, 101, 100, 32, 112, 101, 114, 115, 111, 110>> >>,  \* -> "confused person"
      << <<114, 101, 116, 97, 114, 100>>,  \* "retard"
         <<99, 104, 97, 108, 108, 101, 110, 103, 101, 100, 32, 112, 101, 114, 115, 111, 110>> >>,  \* -> "challenged person"
      << <<114, 101, 116, 97, 114, 100, 101, 100>>,  \* "retarded"
         <<100, 101, 118, 101, 108, 111, 112, 109, 101, 110, 116, 97, 108, 108, 121, 32, 100, 105, 102, 102, 101, 114, 101, 110, 116>> >>,  \* -> "developmentally different"
      << <<105, 109, 98, 101, 99, 105, 108, 101>>,  \* "imbecile"
         <<117, 110, 105, 110, 102, 111, 114, 109, 101, 100, 32, 112, 101, 114, 115, 111, 110>> >>,  \* -> "uninformed person"
      << <<106, 101, 114, 107>>,  \* "jerk"
         <<114, 117, 100, 101, 32, 112, 101, 114, 115, 111, 110>> >>,  \* -> "rude person"
      << <<108, 111, 115, 101, 114>>,  \* "loser"
         <<117, 110, 115, 117, 99, 99, 101, 115, 115, 102, 117, 108, 32, 112, 101, 114, 115, 111, 110>> >>,  \* -> "unsuccessful person"
      << <<115, 99, 117, 109>>,  \* "scum"
         <<117, 110, 112, 108, 101, 97, 115, 97, 110, 116, 32, 112, 101, 114, 115, 111, 110>> >>,  \* -> "unpleasant person"
      << <<116, 114, 97, 115, 104>>,  \* "trash"
         <<117, 110, 100, 101, 115, 105, 114, 97, 98, 108, 101>> >>,  \* -> "undesirable"
      << <<103, 97, 114, 98, 97, 103, 101>>,  \* "garbage"
         <<112, 111, 111, 114, 32, 113, 117, 97, 108, 105, 116, 121>> >>,  \* -> "poor quality"
      << <<119, 111, 114, 116, 104, 108, 101, 115, 115>>,  \* "worthless"
         <<117, 110, 118, 97, 108, 117, 101, 100>> >>,  \* -> "unvalued"
      << <<112, 97, 116, 104, 101, 116, 105, 99>>,  \* "pathetic"
         <<117, 110, 102, 111, 114, 116, 117, 110, 97, 116, 101>> >>  \* -> "unfortunate"
    >>,
    hi |-> <<
      << <<2330, 2370, 2340, 2367, 2351, 2366>>,  \* U+091A U+0942 U+0924 U+093F U+092F U+093E
         <<2350, 2370, 2352, 2381, 2326>> >>,  \* -> U+092E U+0942 U+0930 U+094D U+0916
      << <<99, 104, 117, 116, 105, 121, 97>>,  \* "chutiya"
         <<109, 111, 111, 114, 107, 104, 104>> >>,  \* -> "moorkhh"
      << <<2350, 2366, 2342, 2352, 2330, 2379, 2342>>,  \* U+092E U+093E U+0926 U+0930 U+091A U+094B U+0926
         <<2309, 2340, 2381, 2351, 2306, 2340, 32, 2348, 2369, 2352, 2366>> >>,  \* -> U+0905 U+0924 U+094D U+092F U+0902 U+0924 U+0020 U+092C U+0941 U+0930 U+093E
      << <<109, 97, 100, 97, 114, 99, 104, 111, 100>>,  \* "madarchod"
         <<97, 116, 121, 97, 110, 116, 32, 98, 117, 114, 97>> >>,  \* -> "atyant bura"
      << <<2348, 2361, 2344, 2330, 2379, 2342>>,  \* U+092C U+0939 U+0928 U+091A U+094B U+0926
         <<2309, 2340, 2381, 2351, 2306, 2340, 32, 2348, 2369, 2352, 2366>> >>,  \* -> U+0905 U+0924 U+094D U+092F U+0902 U+0924 U+0020 U+092C U+0941 U+0930 U+093E
      << <<98, 101, 104, 101, 110, 99, 104, 111, 100>>,  \* "behenchod"
         <<97, 116, 121, 97, 110, 116, 32, 98, 117, 114, 97>> >>,  \* -> "atyant bura"
      << <<2349, 2379, 2360, 2337, 2368, 2325, 2375>>,  \* U+092D U+094B U+0938 U+0921 U+0940 U+0915 U+0947
         <<2348, 2369, 2352, 2366, 32, 2357, 2381, 2351, 2325, 2381, 2340, 2367>> >>,  \* -> U+092C U+0941 U+0930 U+093E U+0020 U+0935 U+094D U+092F U+0915 U+094D U+0924 U+093F
      << <<98, 104, 111, 115, 97, 100, 105, 107, 101>>,  \* "bhosadike"
         <<98, 117, 114, 97, 32, 118, 121, 97, 107, 116, 105>> >>,  \* -> "bura vyakti"
      << <<2352, 2366, 2306, 2337>>,  \* U+0930 U+093E U+0902 U+0921
         <<2348, 2369, 2352, 2368, 32, 2350, 2361, 2367, 2354, 2366>> >>,  \* -> U+092C U+0941 U+0930 U+0940 U+0020 U+092E U+0939 U+093F U+0932 U+093E
      << <<114, 97, 110, 100, 105>>,  \* "randi"
         <<98, 117, 114, 105, 32, 109, 97, 104, 105, 108, 97>> >>,  \* -> "buri mahila"
      << <<2330, 2369, 2340, 2367, 2351, 2366, 2346, 2366>>,  \* U+091A U+0941 U+0924 U+093F U+092F U+093E U+092A U+093E
         <<2348, 2375, 2325, 2366, 2352, 32, 2325, 2366, 2350>> >>,  \* -> U+092C U+0947 U+0915 U+093E U+0930 U+0020 U+0915 U+093E U+092E
      << <<99, 104, 117, 116, 105, 121, 97, 112, 97>>,  \* "chutiyapa"
         <<98, 101, 107, 97, 97, 114, 32, 107, 97, 97, 109>> >>,  \* -> "bekaar kaam"
      << <<2348, 2325, 2330, 2379, 2342>>,  \* U+092C U+0915 U+091A U+094B U+0926
         <<2348, 2325, 2357, 2366, 2360, 32, 2325, 2352, 2344, 2375, 32, 2357, 2366, 2354, 2366>> >>,  \* -> U+092C U+0915 U+0935 U+093E U+0938 U+0020 U+0915 U+0930 U+0928 U+0947 U+0020 U+0935 U+093E U+0932 U+093E
      << <<98, 97, 107, 99, 104, 111, 100>>,  \* "bakchod"
         <<98, 97, 107, 119, 97, 115, 32, 107, 97, 114, 110, 101, 32, 119, 97, 108, 97>> >>,  \* -> "bakwas karne wala"
      << <<2348, 2375, 2357, 2325, 2370, 2347, 2364>>,  \* U+092C U+0947 U+0935 U+0915 U+0942 U+092B U+093C
         <<2309, 2344, 2332, 2366, 2344>> >>,  \* -> U+0905 U+0928 U+091C U+093E U+0928
      << <<2348, 2375, 2357, 2325, 2370, 2347>>,  \* U+092C U+0947 U+0935 U+0915 U+0942 U+092B
         <<2309, 2344, 2332, 2366, 2344>> >>,  \* -> U+0905 U+0928 U+091C U+093E U+0928
      << <<98, 101, 119, 97, 107, 111, 111, 102>>,  \* "bewakoof"
         <<97, 110, 106, 97, 97, 110>> >>,  \* -> "anjaan"
      << <<98, 101, 119, 97, 107, 117, 102>>,  \* "bewakuf"
         <<97, 110, 106, 97, 97, 110>> >>,  \* -> "anjaan"
      << <<2350, 2370, 2352, 2381, 2326>>,  \* U+092E U+0942 U+0930 U+094D U+0916
         <<2309, 2332, 2381, 2334, 2366, 2344, 2368>> >>,  \* -> U+0905 U+091C U+094D U+091E U+093E U+0928 U+0940
      << <<2327, 2343, 2366>>,  \* U+0917 U+0927 U+093E
         <<2344, 2366, 2360, 2350, 2333>> >>,  \* -> U+0928 U+093E U+0938 U+092E U+091D
      << <<103, 97, 100, 104, 97>>,  \* "gadha"
         <<110, 97, 115, 97, 109, 97, 106, 104>> >>,  \* -> "nasamajh"
      << <<2313, 2354, 2381, 2354, 2370>>,  \* U+0909 U+0932 U+094D U+0932 U+0942
         <<2349, 2379, 2354, 2366>> >>,  \* -> U+092D U+094B U+0932 U+093E
      << <<117, 108, 108, 117>>,  \* "ullu"
         <<98, 104, 111, 108, 97>> >>,  \* -> "bhola"
      << <<2361, 2352, 2366, 2350, 2368>>,  \* U+0939 U+0930 U+093E U+092E U+0940
         <<2348, 2369, 2352, 2366, 32, 2357, 2381, 2351, 2325, 2381, 2340, 2367>> >>,  \* -> U+092C U+0941 U+0930 U+093E U+0020 U+0935 U+094D U+092F U+0915 U+094D U+0924 U+093F
      << <<104, 97, 114, 97, 109, 105>>,  \* "harami"
         <<98, 117, 114, 97, 32, 118, 121, 97, 107, 116, 105>> >>,  \* -> "bura vyakti"
      << <<2361, 2352, 2366, 2350, 2332, 2364, 2366, 2342, 2366>>,  \* U+0939 U+0930 U+093E U+092E U+091C U+093C U+093E U+0926 U+093E
         <<2309, 2357, 2367, 2358, 2381, 2357, 2366, 2360, 2368, 32, 2357, 2381, 2351, 2325, 2381, 2340, 2367>> >>,  \* -> U+0905 U+0935 U+093F U+0936 U+094D U+0935 U+093E U+0938 U+0940 U+0020 U+0935 U+094D U+092F U+0915 U+094D U+0924 U+093F
      << <<104, 97, 114, 97, 109, 122, 97, 100, 97>>,  \* "haramzada"
         <<97, 118, 105, 115, 104, 118, 97, 97, 115, 105, 32, 118, 121, 97, 107, 116, 105>> >>,  \* -> "avishvaasi vyakti"
      << <<2325, 2350, 2368, 2344, 2366>>,  \* U+0915 U+092E U+0940 U+0928 U+093E
         <<2348, 2369, 2352, 2366, 32, 2357, 2381, 2351, 2325, 2381, 2340, 2367>> >>,  \* -> U+092C U+0941 U+0930 U+093E U+0020 U+0935 U+094D U+092F U+0915 U+094D U+0924 U+093F
      << <<107, 97, 109, 105, 110, 97>>,  \* "kamina"
         <<98, 117, 114, 97, 32, 118, 121, 97, 107, 116, 105>> >>,  \* -> "bura vyakti"
      << <<2325, 2350, 2368, 2344, 2375>>,  \* U+0915 U+092E U+0940 U+0928 U+0947
         <<2348, 2369, 2352, 2375, 32, 2354, 2379, 2327>> >>,  \* -> U+092C U+0941 U+0930 U+0947 U+0020 U+0932 U+094B U+0917
      << <<107, 97, 109, 105, 110, 101>>,  \* "kamine"
         <<98, 117, 114, 101, 32, 108, 111, 103>> >>,  \* -> "bure log"
      << <<2325, 2369, 2340, 2381, 2340, 2366>>,  \* U+0915 U+0941 U+0924 U+094D U+0924 U+093E
         <<2344, 2368, 2330, 32, 2357, 2381, 2351, 2325, 2381, 2340, 2367>> >>,  \* -> U+0928 U+0940 U+091A U+0020 U+0935 U+094D U+092F U+0915 U+094D U+0924 U+093F
      << <<107, 117, 116, 116, 97>>,  \* "kutta"
         <<110, 101, 101, 99, 104, 32, 118, 121, 97, 107, 116, 105>> >>,  \* -> "neech vyakti"
      << <<2325, 2369, 2340, 2381, 2340, 2375>>,  \* U+0915 U+0941 U+0924 U+094D U+0924 U+0947
         <<2344, 2368, 2330, 32, 2354, 2379, 2327>> >>,  \* -> U+0928 U+0940 U+091A U+0020 U+0932 U+094B U+0917
      << <<107, 117, 116, 116, 101>>,  \* "kutte"
         <<110, 101, 101, 99, 104, 32, 108, 111, 103>> >>,  \* -> "neech log"
      << <<2360, 2369, 2309, 2352>>,  \* U+0938 U+0941 U+0905 U+0930
         <<2309, 2360, 2381, 2357, 2330, 2381, 2331, 32, 2357, 2381, 2351, 2325, 2381, 2340, 2367>> >>,  \* -> U+0905 U+0938 U+094D U+0935 U+091A U+094D U+091B U+0020 U+0935 U+094D U+092F U+0915 U+094D U+0924 U+093F
      << <<115, 117, 97, 114>>,  \* "suar"
         <<97, 115, 118, 97, 99, 104, 104, 32, 118, 121, 97, 107, 116, 105>> >>,  \* -> "asvachh vyakti"
      << <<2348, 2325, 2357, 2366, 2360>>,  \* U+092C U+0915 U+0935 U+093E U+0938
         <<2348, 2375, 2325, 2366, 2352, 32, 2348, 2366, 2340>> >>,  \* -> U+092C U+0947 U+0915 U+093E U+0930 U+0020 U+092C U+093E U+0924
      << <<98, 97, 107, 119, 97, 115>>,  \* "bakwas"
         <<98, 101, 107, 97, 97, 114, 32, 98, 97, 97, 116>> >>,  \* -> "bekaar baat"
      << <<2327, 2366, 2354, 2368>>,  \* U+0917 U+093E U+0932 U+0940
         <<2309, 2346, 2350, 2366, 2344, 2332, 2344, 2325, 32, 2358, 2348, 2381, 2342>> >>,  \* -> U+0905 U+092A U+092E U+093E U+0928 U+091C U+0928 U+0915 U+0020 U+0936 U+092C U+094D U+0926
      << <<103, 97, 97, 108, 105>>,  \* "gaali"
         <<97, 112, 109, 97, 97, 110, 106, 97, 110, 97, 107, 32, 115, 104, 97, 98, 100>> >>,  \* -> "apmaanjanak shabd"
      << <<2327, 2306, 2342, 2366>>,  \* U+0917 U+0902 U+0926 U+093E
         <<2309, 2358, 2369, 2349>> >>,  \* -> U+0905 U+0936 U+0941 U+092D
      << <<103, 97, 110, 100, 97>>,  \* "ganda"
         <<97, 115, 104, 117, 98, 104>> >>,  \* -> "ashubh"
      << <<2348, 2381, 2354, 2337, 2368, 32, 2347, 2370, 2354>>,  \* U+092C U+094D U+0932 U+0921 U+0940 U+0020 U+092B U+0942 U+0932
         <<2350, 2370, 2352, 2381, 2326>> >>,  \* -> U+092E U+0942 U+0930 U+094D U+0916
      << <<98, 108, 111, 111, 100, 121, 32, 102, 111, 111, 108>>,  \* "bloody fool"
         <<109, 111, 111, 114, 107, 104, 104>> >>  \* -> "moorkhh"
    >>,
    ta |-> <<
      << <<2986, 3009, 2979, 3021, 2975, 3006>>,  \* U+0BAA U+0BC1 U+0BA3 U+0BCD U+0B9F U+0BBE
         <<2990, 3019, 2970, 2990, 3006, 2985, 2997, 2992, 3021>> >>,  \* -> U+0BAE U+0BCB U+0B9A U+0BAE U+0BBE U+0BA9 U+0BB5 U+0BB0 U+0BCD
      << <<112, 117, 110, 100, 97>>,  \* "punda"
         <<109, 111, 115, 97, 109, 97, 97, 110, 97, 118, 97, 114>> >>,  \* -> "mosamaanavar"
      << <<2963, 2980, 3021, 2980, 3006>>,  \* U+0B93 U+0BA4 U+0BCD U+0BA4 U+0BBE
         <<2990, 3007, 2965, 32, 2990, 3019, 2970, 2990, 3021>> >>,  \* -> U+0BAE U+0BBF U+0B95 U+0020 U+0BAE U+0BCB U+0B9A U+0BAE U+0BCD
      << <<111, 116, 104, 97>>,  \* "otha"
         <<109, 105, 103, 97, 32, 109, 111, 115, 97, 109>> >>,  \* -> "miga mosam"
      << <<2963, 2990, 3021, 2986, 3009>>,  \* U+0B93 U+0BAE U+0BCD U+0BAA U+0BC1
         <<2990, 3007, 2965, 32, 2990, 3019, 2970, 2990, 3021>> >>,  \* -> U+0BAE U+0BBF U+0B95 U+0020 U+0BAE U+0BCB U+0B9A U+0BAE U+0BCD
      << <<111, 109, 98, 117>>,  \* "ombu"
         <<109, 105, 103, 97, 32, 109, 111, 115, 97, 109>> >>,  \* -> "miga mosam"
      << <<2980, 3015, 2997, 2975, 3007, 2991, 3006>>,  \* U+0BA4 U+0BC7 U+0BB5 U+0B9F U+0BBF U+0BAF U+0BBE
         <<2965, 3014, 2975, 3021, 2975, 2997, 2992, 3021>> >>,  \* -> U+0B95 U+0BC6 U+0B9F U+0BCD U+0B9F U+0BB5 U+0BB0 U+0BCD
      << <<116, 104, 101, 118, 105, 100, 105, 121, 97>>,  \* "thevidiya"
         <<107, 101, 116, 116, 97, 118, 97, 114>> >>,  \* -> "kettavar"
      << <<2965, 3009, 2980, 3021, 2980, 3007>>,  \* U+0B95 U+0BC1 U+0BA4 U+0BCD U+0BA4 U+0BBF
         <<2965, 3014, 2975, 3021, 2975, 2997, 2992, 3021>> >>,  \* -> U+0B95 U+0BC6 U+0B9F U+0BCD U+0B9F U+0BB5 U+0BB0 U+0BCD
      << <<107, 111, 111, 116, 104, 105>>,  \* "koothi"
         <<107, 101, 116, 116, 97, 118, 97, 114>> >>,  \* -> "kettavar"
      << <<2986, 3010, 2994, 3021>>,  \* U+0BAA U+0BC2 U+0BB2 U+0BCD
         <<2990, 3019, 2970, 2990, 3021>> >>,  \* -> U+0BAE U+0BCB U+0B9A U+0BAE U+0BCD
      << <<112, 117, 108>>,  \* "pul"
         <<109, 111, 115, 97, 109>> >>,  \* -> "mosam"
      << <<2990, 3009, 2975, 3021, 2975, 3006, 2995, 3021>>,  \* U+0BAE U+0BC1 U+0B9F U+0BCD U+0B9F U+0BBE U+0BB3 U+0BCD
         <<2949, 2993, 3007, 2991, 3006, 2980, 2997, 2992, 3021>> >>,  \* -> U+0B85 U+0BB1 U+0BBF U+0BAF U+0BBE U+0BA4 U+0BB5 U+0BB0 U+0BCD
      << <<109, 117, 116, 116, 97, 97, 108>>,  \* "muttaal"
         <<97, 114, 105, 121, 97, 116, 104, 97, 118, 97, 114>> >>,  \* -> "ariyathavar"
      << <<2986, 3016, 2980, 3021, 2980, 3007, 2991, 2990, 3021>>,  \* U+0BAA U+0BC8 U+0BA4 U+0BCD U+0BA4 U+0BBF U+0BAF U+0BAE U+0BCD
         <<2965, 3009, 2996, 2986, 3021, 2986, 2990, 3006, 2985, 2997, 2992, 3021>> >>,  \* -> U+0B95 U+0BC1 U+0BB4 U+0BAA U+0BCD U+0BAA U+0BAE U+0BBE U+0BA9 U+0BB5 U+0BB0 U+0BCD
      << <<112, 97, 105, 116, 104, 105, 121, 97, 109>>,  \* "paithiyam"
         <<107, 117, 122, 104, 104, 97, 112, 112, 97, 109, 97, 110, 97, 118, 97, 114>> >>,  \* -> "kuzhhappamanavar"
      << <<2965, 2996, 3009, 2980, 3016>>,  \* U+0B95 U+0BB4 U+0BC1 U+0BA4 U+0BC8
         <<2990, 3010, 2975, 2985, 2990, 3021, 2993, 2997, 2992, 3021>> >>,  \* -> U+0BAE U+0BC2 U+0B9F U+0BA9 U+0BAE U+0BCD U+0BB1 U+0BB5 U+0BB0 U+0BCD
      << <<107, 97, 122, 104, 117, 100, 104, 97, 105>>,  \* "kazhudhai"
         <<109, 117, 100, 97, 110, 97, 109, 114, 97, 118, 97, 114>> >>,  \* -> "mudanamravar"
      << <<2984, 3006, 2991, 3021>>,  \* U+0BA8 U+0BBE U+0BAF U+0BCD
         <<2980, 3008, 2991, 2997, 2992, 3021>> >>,  \* -> U+0BA4 U+0BC0 U+0BAF U+0BB5 U+0BB0 U+0BCD
      << <<110, 97, 97, 105>>,  \* "naai"
         <<116, 104, 101, 101, 121, 97, 118, 97, 114>> >>,  \* -> "theeyavar"
      << <<2986, 2985, 3021, 2985, 3007>>,  \* U+0BAA U+0BA9 U+0BCD U+0BA9 U+0BBF
         <<2980, 3008, 2991, 2997, 2992, 3021>> >>,  \* -> U+0BA4 U+0BC0 U+0BAF U+0BB5 U+0BB0 U+0BCD
      << <<112, 97, 110, 110, 105>>,  \* "panni"
         <<116, 104, 101, 101, 121, 97, 118, 97, 114>> >>,  \* -> "theeyavar"
      << <<108, 111, 111, 115, 117>>,  \* "loosu"
         <<116, 104, 101, 114, 105, 121, 97, 100, 104, 97, 118, 97, 114>> >>,  \* -> "theriyadhavar"
      << <<112, 111, 114, 117, 107, 107, 105>>,  \* "porukki"
         <<107, 101, 116, 116, 97, 118, 97, 114>> >>,  \* -> "kettavar"
      << <<107, 105, 114, 117, 107, 107, 117>>,  \* "kirukku"
         <<112, 105, 122, 104, 104, 97, 105, 121, 97, 97, 110, 97, 118, 97, 114>> >>  \* -> "pizhhaiyaanavar"
    >>,
    te |-> <<
      << <<3114, 3138, 3093, 3137>>,  \* U+0C2A U+0C42 U+0C15 U+0C41
         <<3098, 3142, 3105, 3149, 3105, 3110, 3135>> >>,  \* -> U+0C1A U+0C46 U+0C21 U+0C4D U+0C21 U+0C26 U+0C3F
      << <<112, 111, 111, 107, 117>>,  \* "pooku"
         <<99, 104, 101, 100, 100, 97, 100, 105>> >>,  \* -> "cheddadi"
      << <<3122, 3074, 3105>>,  \* U+0C32 U+0C02 U+0C21
         <<3098, 3142, 3105, 3149, 3105, 3110, 3135>> >>,  \* -> U+0C1A U+0C46 U+0C21 U+0C4D U+0C21 U+0C26 U+0C3F
      << <<108, 97, 110, 100>>,  \* "land"
         <<99, 104, 101, 100, 100, 97, 100, 105>> >>,  \* -> "cheddadi"
      << <<3116, 3147, 3105, 3137>>,  \* U+0C2C U+0C4B U+0C21 U+0C41
         <<3098, 3142, 3105, 3149, 3105, 32, 3125, 3149, 3119, 3093, 3149, 3108, 3135>> >>,  \* -> U+0C1A U+0C46 U+0C21 U+0C4D U+0C21 U+0020 U+0C35 U+0C4D U+0C2F U+0C15 U+0C4D U+0C24 U+0C3F
      << <<98, 111, 100, 117>>,  \* "bodu"
         <<99, 104, 101, 100, 100, 97, 32, 118, 121, 97, 107, 116, 104, 105>> >>,  \* -> "chedda vyakthi"
      << <<3093, 3138, 3108, 3137, 3120, 3137>>,  \* U+0C15 U+0C42 U+0C24 U+0C41 U+0C30 U+0C41
         <<3098, 3142, 3105, 3149, 3105, 3110, 3135>> >>,  \* -> U+0C1A U+0C46 U+0C21 U+0C4D U+0C21 U+0C26 U+0C3F
      << <<107, 111, 116, 104, 117, 114, 117>>,  \* "kothuru"
         <<99, 104, 101, 100, 100, 97, 100, 105>> >>,  \* -> "cheddadi"
      << <<3114, 3138, 3120, 3135>>,  \* U+0C2A U+0C42 U+0C30 U+0C3F
         <<3098, 3142, 3105, 3149, 3105, 3110, 3135>> >>,  \* -> U+0C1A U+0C46 U+0C21 U+0C4D U+0C21 U+0C26 U+0C3F
      << <<112, 111, 111, 114, 105>>,  \* "poori"
         <<99, 104, 101, 100, 100, 97, 100, 105>> >>,  \* -> "cheddadi"
      << <<108, 97, 110, 106, 97, 107, 111, 100, 117, 107, 117>>,  \* "lanjakoduku"
         <<99, 104, 101, 100, 100, 97, 32, 118, 121, 97, 107, 116, 104, 105>> >>,  \* -> "chedda vyakthi"
      << <<3118, 3138, 3120, 3149, 3094, 3137, 3105, 3137>>,  \* U+0C2E U+0C42 U+0C30 U+0C4D U+0C16 U+0C41 U+0C21 U+0C41
         <<3108, 3142, 3122, 3135, 3119, 3112, 3135, 32, 3125, 3149, 3119, 3093, 3149, 3108, 3135>> >>,  \* -> U+0C24 U+0C46 U+0C32 U+0C3F U+0C2F U+0C28 U+0C3F U+0020 U+0C35 U+0C4D U+0C2F U+0C15 U+0C4D U+0C24 U+0C3F
      << <<109, 111, 111, 114, 107, 104, 104, 117, 100, 117>>,  \* "moorkhhudu"
         <<116, 101, 108, 105, 121, 97, 110, 105, 32, 118, 121, 97, 107, 116, 104, 105>> >>,  \* -> "teliyani vyakthi"
      << <<3125, 3142, 3111, 3125>>,  \* U+0C35 U+0C46 U+0C27 U+0C35
         <<3077, 3112, 3137, 3117, 3125, 3074, 32, 3122, 3143, 3112, 3135, 32, 3125, 3134, 3120, 3137>> >>,  \* -> U+0C05 U+0C28 U+0C41 U+0C2D U+0C35 U+0C02 U+0020 U+0C32 U+0C47 U+0C28 U+0C3F U+0020 U+0C35 U+0C3E U+0C30 U+0C41
      << <<118, 101, 100, 97, 118, 97>>,  \* "vedava"
         <<97, 110, 117, 98, 104, 97, 118, 97, 109, 32, 108, 101, 110, 105, 32, 118, 97, 97, 114, 117>> >>,  \* -> "anubhavam leni vaaru"
      << <<3095, 3134, 3105, 3135, 3110, 3143, 3105, 3137>>,  \* U+0C17 U+0C3E U+0C21 U+0C3F U+0C26 U+0C47 U+0C21 U+0C41
         <<3118, 3138, 3120, 3149, 3094, 3137, 3105, 3137>> >>,  \* -> U+0C2E U+0C42 U+0C30 U+0C4D U+0C16 U+0C41 U+0C21 U+0C41
      << <<103, 97, 100, 105, 100, 104, 101, 100, 117>>,  \* "gadidhedu"
         <<109, 111, 111, 114, 107, 104, 104, 117, 100, 117>> >>,  \* -> "moorkhhudu"
      << <<3095, 3147, 3125, 3137>>,  \* U+0C17 U+0C4B U+0C35 U+0C41
         <<3118, 3138, 3106, 3112, 3074, 3118, 3144, 3112, 32, 3125, 3149, 3119, 3093, 3149, 3108, 3135>> >>,  \* -> U+0C2E U+0C42 U+0C22 U+0C28 U+0C02 U+0C2E U+0C48 U+0C28 U+0020 U+0C35 U+0C4D U+0C2F U+0C15 U+0C4D U+0C24 U+0C3F
      << <<103, 111, 118, 117>>,  \* "govu"
         <<109, 117, 100, 97, 110, 97, 109, 97, 105, 110, 97, 32, 118, 121, 97, 107, 116, 104, 105>> >>,  \* -> "mudanamaina vyakthi"
      << <<3093, 3137, 3093, 3149, 3093>>,  \* U+0C15 U+0C41 U+0C15 U+0C4D U+0C15
         <<3108, 3114, 3149, 3114, 3137, 3105, 3137, 32, 3125, 3149, 3119, 3093, 3149, 3108, 3135>> >>,  \* -> U+0C24 U+0C2A U+0C4D U+0C2A U+0C41 U+0C21 U+0C41 U+0020 U+0C35 U+0C4D U+0C2F U+0C15 U+0C4D U+0C24 U+0C3F
      << <<107, 117, 107, 107, 97>>,  \* "kukka"
         <<116, 104, 97, 112, 112, 117, 100, 117, 32, 118, 121, 97, 107, 116, 104, 105>> >>,  \* -> "thappudu vyakthi"
      << <<3114, 3074, 3110, 3135>>,  \* U+0C2A U+0C02 U+0C26 U+0C3F
         <<3118, 3138, 3106, 3112, 3074, 3118, 3144, 3112, 32, 3125, 3149, 3119, 3093, 3149, 3108, 3135>> >>,  \* -> U+0C2E U+0C42 U+0C22 U+0C28 U+0C02 U+0C2E U+0C48 U+0C28 U+0020 U+0C35 U+0C4D U+0C2F U+0C15 U+0C4D U+0C24 U+0C3F
      << <<112, 97, 110, 100, 105>>,  \* "pandi"
         <<109, 117, 100, 97, 110, 97, 109, 97, 105, 110, 97, 32, 118, 121, 97, 107, 116, 104, 105>> >>,  \* -> "mudanamaina vyakthi"
      << <<3110, 3149, 3120, 3147, 3129, 3135>>,  \* U+0C26 U+0C4D U+0C30 U+0C4B U+0C39 U+0C3F
         <<3108, 3114, 3149, 3114, 3137, 32, 3118, 3112, 3128, 3137, 32, 3081, 3112, 3149, 3112, 32, 3125, 3149, 3119, 3093, 3149, 3108, 3135>> >>,  \* -> U+0C24 U+0C2A U+0C4D U+0C2A U+0C41 U+0020 U+0C2E U+0C28 U+0C38 U+0C41 U+0020 U+0C09 U+0C28 U+0C4D U+0C28 U+0020 U+0C35 U+0C4D U+0C2F U+0C15 U+0C4D U+0C24 U+0C3F
      << <<100, 114, 111, 104, 105>>,  \* "drohi"
         <<116, 104, 97, 112, 112, 117, 32, 109, 97, 110, 97, 115, 117, 32, 117, 110, 110, 97, 32, 118, 121, 97, 107, 116, 104, 105>> >>,  \* -> "thappu manasu unna vyakthi"
      << <<103, 97, 100, 117>>,  \* "gadu"
         <<99, 104, 101, 100, 100, 97, 32, 118, 121, 97, 107, 116, 104, 105>> >>  \* -> "chedda vyakthi"
    >> ]

custom_profane_words ==
  [ hi |-> <<
      <<2348, 2375, 2357, 2325, 2370, 2347>>,  \* U+092C U+0947 U+0935 U+0915 U+0942 U+092B
      <<2350, 2370, 2352, 2381, 2326>>,  \* U+092E U+0942 U+0930 U+094D U+0916
      <<2327, 2343, 2366>>,  \* U+0917 U+0927 U+093E
      <<2330, 2370, 2340, 2367, 2351, 2366>>,  \* U+091A U+0942 U+0924 U+093F U+092F U+093E
      <<2361, 2352, 2366, 2350, 2368>>,  \* U+0939 U+0930 U+093E U+092E U+0940
      <<98, 101, 119, 97, 107, 111, 111, 102>>,  \* "bewakoof"
      <<99, 104, 117, 116, 105, 121, 97>>,  \* "chutiya"
      <<104, 97, 114, 97, 109, 105>>,  \* "harami"
      <<109, 97, 100, 97, 114, 99, 104, 111, 100>>,  \* "madarchod"
      <<98, 104, 101, 110, 99, 104, 111, 100>>  \* "bhenchod"
    >>,
    ta |-> <<
      <<2990, 3009, 2975, 3021, 2975, 3006, 2995, 3021>>,  \* U+0BAE U+0BC1 U+0B9F U+0BCD U+0B9F U+0BBE U+0BB3 U+0BCD
      <<2986, 3016, 2980, 3021, 2980, 3007, 2991, 2990, 3021>>,  \* U+0BAA U+0BC8 U+0BA4 U+0BCD U+0BA4 U+0BBF U+0BAF U+0BAE U+0BCD
      <<2965, 2996, 3009, 2980, 3016>>,  \* U+0B95 U+0BB4 U+0BC1 U+0BA4 U+0BC8
      <<112, 117, 110, 100, 97>>,  \* "punda"
      <<111, 116, 104, 97>>,  \* "otha"
      <<108, 111, 111, 115, 117>>  \* "loosu"
    >>,
    te |-> <<
      <<3118, 3138, 3120, 3149, 3094, 3137, 3105, 3137>>,  \* U+0C2E U+0C42 U+0C30 U+0C4D U+0C16 U+0C41 U+0C21 U+0C41
      <<3125, 3142, 3111, 3125>>,  \* U+0C35 U+0C46 U+0C27 U+0C35
      <<3095, 3134, 3105, 3135, 3110>>,  \* U+0C17 U+0C3E U+0C21 U+0C3F U+0C26
      <<103, 97, 100, 117>>,  \* "gadu"
      <<118, 101, 100, 97, 118, 97>>,  \* "vedava"
      <<107, 117, 107, 107, 97>>  \* "kukka"
    >>,
    en |-> <<
      <<115, 116, 117, 112, 105, 100>>,  \* "stupid"
      <<105, 100, 105, 111, 116>>,  \* "idiot"
      <<109, 111, 114, 111, 110>>  \* "moron"
    >> ]

synonym_map ==
  [ en |-> <<
      << <<115, 116, 117, 112, 105, 100>>,  \* "stupid"
         <<117, 110, 119, 105, 115, 101>> >>,  \* -> "unwise"
      << <<105, 100, 105, 111, 116>>,  \* "idiot"
         <<105, 110, 101, 120, 112, 101, 114, 105, 101, 110, 99, 101, 100, 32, 112, 101, 114, 115, 111, 110>> >>,  \* -> "inexperienced person"
      << <<109, 111, 114, 111, 110>>,  \* "moron"
         <<99, 111, 110, 102, 117, 115, 101, 100, 32, 112, 101, 114, 115, 111, 110>> >>,  \* -> "confused person"
      << <<100, 97, 109, 110>>,  \* "damn"
         <<100, 97, 114, 110>> >>,  \* -> "darn"
      << <<104, 101, 108, 108>>,  \* "hell"
         <<104, 101, 99, 107>> >>  \* -> "heck"
    >>,
    hi |-> <<
      << <<2348, 2375, 2357, 2325, 2370, 2347>>,  \* U+092C U+0947 U+0935 U+0915 U+0942 U+092B
         <<2309, 2344, 2332, 2366, 2344>> >>,  \* -> U+0905 U+0928 U+091C U+093E U+0928
      << <<2350, 2370, 2352, 2381, 2326>>,  \* U+092E U+0942 U+0930 U+094D U+0916
         <<2309, 2332, 2381, 2334, 2366, 2344, 2368>> >>,  \* -> U+0905 U+091C U+094D U+091E U+093E U+0928 U+0940
      << <<98, 101, 119, 97, 107, 111, 111, 102>>,  \* "bewakoof"
         <<97, 110, 106, 97, 97, 110>> >>,  \* -> "anjaan"
      << <<99, 104, 117, 116, 105, 121, 97>>,  \* "chutiya"
         <<110, 97, 115, 97, 109, 97, 106, 104>> >>  \* -> "nasamajh"
    >>,
    ta |-> <<
      << <<2990, 3009, 2975, 3021, 2975, 3006, 2995, 3021>>,  \* U+0BAE U+0BC1 U+0B9F U+0BCD U+0B9F U+0BBE U+0BB3 U+0BCD
         <<2949, 2993, 3007, 2991, 3006, 2980, 2997, 2992, 3021>> >>,  \* -> U+0B85 U+0BB1 U+0BBF U+0BAF U+0BBE U+0BA4 U+0BB5 U+0BB0 U+0BCD
      << <<2986, 3016, 2980, 3021, 2980, 3007, 2991, 2990, 3021>>,  \* U+0BAA U+0BC8 U+0BA4 U+0BCD U+0BA4 U+0BBF U+0BAF U+0BAE U+0BCD
         <<2965, 3009, 2996, 2986, 3021, 2986, 2990, 3006, 2985, 2997, 2992, 3021>> >>,  \* -> U+0B95 U+0BC1 U+0BB4 U+0BAA U+0BCD U+0BAA U+0BAE U+0BBE U+0BA9 U+0BB5 U+0BB0 U+0BCD
      << <<108, 111, 111, 115, 117>>,  \* "loosu"
         <<116, 104, 101, 114, 105, 121, 97, 100, 104, 97, 118, 97, 114>> >>  \* -> "theriyadhavar"
    >>,
    te |-> <<
      << <<3118, 3138, 3120, 3149, 3094, 3137, 3105, 3137>>,  \* U+0C2E U+0C42 U+0C30 U+0C4D U+0C16 U+0C41 U+0C21 U+0C41
         <<3108, 3142, 3122, 3135, 3119, 3112, 3135, 32, 3125, 3149, 3119, 3093, 3149, 3108, 3135>> >>,  \* -> U+0C24 U+0C46 U+0C32 U+0C3F U+0C2F U+0C28 U+0C3F U+0020 U+0C35 U+0C4D U+0C2F U+0C15 U+0C4D U+0C24 U+0C3F
      << <<3125, 3142, 3111, 3125>>,  \* U+0C35 U+0C46 U+0C27 U+0C35
         <<3077, 3112, 3137, 3117, 3125, 3074, 32, 3122, 3143, 3112, 3135, 32, 3125, 3134, 3120, 3137>> >>,  \* -> U+0C05 U+0C28 U+0C41 U+0C2D U+0C35 U+0C02 U+0020 U+0C32 U+0C47 U+0C28 U+0C3F U+0020 U+0C35 U+0C3E U+0C30 U+0C41
      << <<118, 101, 100, 97, 118, 97>>,  \* "vedava"
         <<97, 110, 117, 98, 104, 97, 118, 97, 109, 32, 108, 101, 110, 105, 32, 118, 97, 97, 114, 117>> >>  \* -> "anubhavam leni vaaru"
    >> ]

custom_words ==
  [ en |-> <<
      <<115, 116, 117, 112, 105, 100>>,  \* "stupid"
      <<105, 100, 105, 111, 116>>  \* "idiot"
    >>,
    hi |-> <<
      <<2348, 2375, 2357, 2325, 2370, 2347>>,  \* U+092C U+0947 U+0935 U+0915 U+0942 U+092B
      <<2350, 2370, 2352, 2381, 2326>>,  \* U+092E U+0942 U+0930 U+094D U+0916
      <<98, 101, 119, 97, 107, 111, 111, 102>>  \* "bewakoof"
    >>,
    ta |-> <<
      <<2990, 3009, 2975, 3021, 2975, 3006, 2995, 3021>>,  \* U+0BAE U+0BC1 U+0B9F U+0BCD U+0B9F U+0BBE U+0BB3 U+0BCD
      <<108, 111, 111, 115, 117>>  \* "loosu"
    >>,
    te |-> <<
      <<3118, 3138, 3120, 3149, 3094, 3137, 3105, 3137>>,  \* U+0C2E U+0C42 U+0C30 U+0C4D U+0C16 U+0C41 U+0C21 U+0C41
      <<118, 101, 100, 97, 118, 97>>  \* "vedava"
    >> ]

layer_synonyms ==
  [ en |-> <<
      << <<115, 116, 117, 112, 105, 100>>,  \* "stupid"
         <<117, 110, 119, 105, 115, 101>> >>,  \* -> "unwise"
      << <<105, 100, 105, 111, 116>>,  \* "idiot"
         <<105, 110, 101, 120, 112, 101, 114, 105, 101, 110, 99, 101, 100, 32, 112, 101, 114, 115, 111, 110>> >>  \* -> "inexperienced person"
    >>,
    hi |-> <<
      << <<2348, 2375, 2357, 2325, 2370, 2347>>,  \* U+092C U+0947 U+0935 U+0915 U+0942 U+092B
         <<2309, 2344, 2332, 2366, 2344>> >>,  \* -> U+0905 U+0928 U+091C U+093E U+0928
      << <<98, 101, 119, 97, 107, 111, 111, 102>>,  \* "bewakoof"
         <<97, 110, 106, 97, 97, 110>> >>  \* -> "anjaan"
    >>,
    ta |-> <<
      << <<2990, 3009, 2975, 3021, 2975, 3006, 2995, 3021>>,  \* U+0BAE U+0BC1 U+0B9F U+0BCD U+0B9F U+0BBE U+0BB3 U+0BCD
         <<2949, 2993, 3007, 2991, 3006, 2980, 2997, 2992, 3021>> >>,  \* -> U+0B85 U+0BB1 U+0BBF U+0BAF U+0BBE U+0BA4 U+0BB5 U+0BB0 U+0BCD
      << <<108, 111, 111, 115, 117>>,  \* "loosu"
         <<116, 104, 101, 114, 105, 121, 97, 100, 104, 97, 118, 97, 114>> >>  \* -> "theriyadhavar"
    >>,
    te |-> <<
      << <<3118, 3138, 3120, 3149, 3094, 3137, 3105, 3137>>,  \* U+0C2E U+0C42 U+0C30 U+0C4D U+0C16 U+0C41 U+0C21 U+0C41
         <<3108, 3142, 3122, 3135, 3119, 3112, 3135, 32, 3125, 3149, 3119, 3093, 3149, 3108, 3135>> >>,  \* -> U+0C24 U+0C46 U+0C32 U+0C3F U+0C2F U+0C28 U+0C3F U+0020 U+0C35 U+0C4D U+0C2F U+0C15 U+0C4D U+0C24 U+0C3F
      << <<118, 101, 100, 97, 118, 97>>,  \* "vedava"
         <<3077, 3112, 3137, 3117, 3125, 3074, 32, 3122, 3143, 3112, 3135, 32, 3125, 3134, 3120, 3137>> >>  \* -> U+0C05 U+0C28 U+0C41 U+0C2D U+0C35 U+0C02 U+0020 U+0C32 U+0C47 U+0C28 U+0C3F U+0020 U+0C35 U+0C3E U+0C30 U+0C41
    >> ]

(***************************************************************************)
(* Python containers.  A list is a sequence; a dict literal is the        *)
(* sequence of its key/value pairs.                                       *)
(***************************************************************************)
Range(s) == {s[i] : i \in 1..Len(s)}

\* d.get(lang, []) of a dict keyed by language code
ForLanguage(d, lang) == IF lang \in DOMAIN d THEN d[lang] ELSE <<>>

DictHas(d, k) == \E i \in 1..Len(d) : d[i][1] = k
DictGet(d, k) == d[CHOOSE i \in 1..Len(d) : d[i][1] = k][2]

\* d[k] = v of a dict: the entry of k is replaced, a new key is appended
DictSet(d, k, v) ==
  IF DictHas(d, k)
  THEN [i \in 1..Len(d) |-> IF d[i][1] = k THEN <<k, v>> ELSE d[i]]
  ELSE Append(d, <<k, v>>)

\* the orders in which a Python set (or list(set(...))) can be iterated
RECURSIVE Orders(_)
Orders(S) ==
  IF S = {} THEN {<<>>}
  ELSE UNION {{<<x>> \o o : o \in Orders(S \ {x})} : x \in S}

SUPPORTED_LANGUAGES == {"en", "hi", "ta", "te"}

(***************************************************************************)
(* better_profanity, the library behind `profanity`: its word list is one *)
(* process-wide object.  load_censor_words() replaces the list by the     *)
(* library's default English list, add_censor_words() appends, censor()   *)
(* replaces each listed word of the text by four asterisks.  The library  *)
(* is not part of the repository; it is modelled as released (0.7.0).     *)
(***************************************************************************)
\* the entries of the library's default list that a text of the model can
\* contain; text_safety_layer.py relies on "damn" and "hell" being listed
DefaultCensorWords ==
  { <<97, 115, 115>>,        \* "ass"
    <<99, 111, 99, 107>>,    \* "cock"
    <<100, 97, 109, 110>>,   \* "damn"
    <<104, 101, 108, 108>> } \* "hell"

\* the number of following words the library joins to the current one: the
\* largest number of separators in an entry of the default list
MAX_NUMBER_COMBINATIONS == 3

\* profanity.load_censor_words()
load_censor_words == DefaultCensorWords

\* profanity.add_censor_words(custom_words)
add_censor_words(wordset, words) == wordset \cup Range(words)

\* the combining marks (categories Mn, Mc) of the three Indic blocks
IsMark(c) ==
  \/ c \in (2304..2307) \cup (2362..2364) \cup (2366..2383) \cup (2385..2391)
           \cup (2402..2403)
  \/ c \in {2946} \cup (3006..3010) \cup (3014..3016) \cup (3018..3021)
           \cup {3031}
  \/ c \in (3072..3076) \cup {3132} \cup (3134..3140) \cup (3142..3144)
           \cup (3146..3149) \cup (3157..3158) \cup (3170..3171)

\* ALLOWED_CHARACTERS: ASCII letters and digits, @ $ * " ' and the Unicode
\* characters of categories Ll, Lu, Mc and Mn; the letters of the Indic
\* scripts (category Lo) are not among them
AllowedChar(c) ==
  \/ c \in (48..57) \cup (65..90) \cup (97..122) \cup {64, 36, 42, 34, 39}
  \/ IsMark(c)

\* the spellings the library accepts for one letter of a listed word
CharVariants(c) ==
  CASE c = 97  -> {97, 64, 42, 52}     \* a: a @ * 4
    [] c = 105 -> {105, 42, 108, 49}   \* i: i * l 1
    [] c = 111 -> {111, 42, 48, 64}    \* o: o * 0 @
    [] c = 117 -> {117, 42, 118}       \* u: u * v
    [] c = 118 -> {118, 42, 117}       \* v: v * u
    [] c = 108 -> {108, 49}            \* l: l 1
    [] c = 101 -> {101, 42, 51}        \* e: e * 3
    [] c = 115 -> {115, 36, 53}        \* s: s $ 5
    [] c = 116 -> {116, 55}            \* t: t 7
    [] OTHER   -> {c}

\* `s in CENSOR_WORDSET`
InCensorWords(wordset, s) ==
  \E w \in wordset :
    /\ Len(w) = Len(s)
    /\ \A i \in 1..Len(w) : s[i] \in CharVariants(w[i])

\* the first position >= i of an allowed character, Len(t) + 1 if none
NextWordStart(t, i) ==
  IF \E j \in i..Len(t) : AllowedChar(t[j])
  THEN CHOOSE j \in i..Len(t) :
         AllowedChar(t[j]) /\ \A k \in i..(j - 1) : ~AllowedChar(t[k])
  ELSE Len(t) + 1

\* the last position of the run of allowed characters that starts at i
WordEnd(t, i) ==
  CHOOSE j \in i..Len(t) :
    /\ \A k \in i..j : AllowedChar(t[k])
    /\ j = Len(t) \/ ~AllowedChar(t[j + 1])

FourStars == <<42, 42, 42, 42>>

CensorWord(wordset, w) ==
  IF InCensorWords(wordset, Lower(w)) THEN FourStars ELSE w

\* any_next_words_form_swear_word: the current word joined with up to n of
\* the words after position `from`, without (full) and with (spelled) the
\* characters between them; the end of the last word joined, 0 if no join
\* is listed.  A last word of one character is not looked at.
RECURSIVE NextWordsFormSwearWord(_, _, _, _, _, _)
NextWordsFormSwearWord(wordset, t, full, spelled, from, n) ==
  IF n = 0 THEN 0
  ELSE
    LET ns == NextWordStart(t, from)
    IN  IF ns >= Len(t) THEN 0
        ELSE
          LET ne       == WordEnd(t, ns)
              full2    == full \o Lower(SubSeq(t, ns, ne))
              spelled2 == spelled \o Lower(SubSeq(t, from, ne))
          IN  IF InCensorWords(wordset, full2) \/ InCensorWords(wordset, spelled2)
              THEN ne
              ELSE NextWordsFormSwearWord(wordset, t, full2, spelled2, ne + 1, n - 1)

\* _hide_swear_words from position i, which is the start of a word or a
\* character between words
RECURSIVE HideSwearWords(_, _, _)
HideSwearWords(wordset, t, i) ==
  IF i > Len(t) THEN <<>>
  ELSE IF ~AllowedChar(t[i]) THEN <<t[i]>> \o HideSwearWords(wordset, t, i + 1)
  ELSE
    LET j   == WordEnd(t, i)
        cur == SubSeq(t, i, j)
    IN  IF j = Len(t) THEN CensorWord(wordset, cur)
        ELSE
          LET end == NextWordsFormSwearWord(wordset, t, Lower(cur), Lower(cur),
                                            j + 1, MAX_NUMBER_COMBINATIONS)
          IN  IF end > 0
              THEN FourStars \o HideSwearWords(wordset, t, end + 1)
              ELSE CensorWord(wordset, cur) \o <<t[j + 1]>>
                     \o HideSwearWords(wordset, t, j + 2)

\* profanity.censor(text); a text whose first allowed character is its last
\* character, or that has none, is returned as it is
censor(wordset, text) ==
  LET start == NextWordStart(text, 1)
  IN  IF start >= Len(text) THEN text
      ELSE SubSeq(text, 1, start - 1) \o HideSwearWords(wordset, text, start)

\* profanity.contains_profanity(text)
contains_profanity(wordset, text) == text # censor(wordset, text)

(***************************************************************************)
(* SafetyFilter (src/safety_filter.py)                                    *)
(***************************************************************************)
\* a variant that returns the script with the most code points in the text
detect_language_by_count(text) ==
  LET devanagari == Cardinality({i \in 1..Len(text) : text[i] \in 2304..2431})
      tamil      == Cardinality({i \in 1..Len(text) : text[i] \in 2944..3071})
      telugu     == Cardinality({i \in 1..Len(text) : text[i] \in 3072..3199})
  IN  IF devanagari > 0 /\ devanagari >= tamil /\ devanagari >= telugu THEN "hi"
      ELSE IF tamil > 0 /\ tamil >= telugu THEN "ta"
      ELSE IF telugu > 0 THEN "te"
      ELSE "en"

\* detect_language: the script whose block has a code point in the text,
\* Devanagari first, then Tamil, then Telugu
detect_language(text) ==
  LET devanagari == Cardinality({i \in 1..Len(text) : text[i] \in 2304..2431})
      tamil      == Cardinality({i \in 1..Len(text) : text[i] \in 2944..3071})
      telugu     == Cardinality({i \in 1..Len(text) : text[i] \in 3072..3199})
  IN  IF devanagari > 0 THEN "hi"
      ELSE IF tamil > 0 THEN "ta"
      ELSE IF telugu > 0 THEN "te"
      ELSE "en"

\* lang = self.detect_language(text) if self.auto_detect else self.language
SFilter_language(self, text) ==
  IF self.auto_detect THEN detect_language(text) ELSE self.language

\* all_words, the union of both word lists of the language
SFilter_all_words(lang) ==
  Range(ForLanguage(highly_abusive, lang)) \cup Range(ForLanguage(racial_slurs, lang))

\* a variant that probes the text as written, without case folding
SFilter_found_case_sensitive(text, lang) ==
  {word \in SFilter_all_words(lang) : Contains(text, word)}

\* the words appended to `found`: word.lower() in text.lower()
SFilter_found(text, lang) ==
  LET lower == Lower(text)
  IN  {word \in SFilter_all_words(lang) : Contains(lower, Lower(word))}

\* _get_synonym: synonyms.get(word.lower()) or synonyms.get(word), else word
SFilter_get_synonym(word, lang) ==
  LET table == ForLanguage(synonyms, lang)
      rep   == IF DictHas(table, Lower(word)) /\ DictGet(table, Lower(word)) # <<>>
               THEN DictGet(table, Lower(word))
               ELSE IF DictHas(table, word) THEN DictGet(table, word) ELSE <<>>
  IN  IF rep # <<>> THEN rep ELSE word

\* a variant that replaces the first match only, as pattern.sub with count=1
SFilter_replace_first(text, word, replacement, i) ==
  LET matches == {k \in i..Len(text) : MatchAt(text, word, k)}
  IN  IF matches = {} THEN SubSeq(text, i, Len(text))
      ELSE LET k == CHOOSE m \in matches : \A n \in matches : m <= n
           IN  SubSeq(text, i, k - 1) \o replacement
                 \o SubSeq(text, k + Len(word), Len(text))

\* pattern.sub with a replacement that is written as it is (a template
\* without backslash, or the value a function returns), from position i
RECURSIVE SFilter_replace_from(_, _, _, _)
SFilter_replace_from(text, word, replacement, i) ==
  IF i > Len(text) THEN <<>>
  ELSE IF MatchAt(text, word, i)
       THEN replacement \o SFilter_replace_from(text, word, replacement, i + Len(word))
       ELSE <<text[i]>> \o SFilter_replace_from(text, word, replacement, i + 1)

\* pattern.sub takes a str replacement as a template and parses it before
\* it looks for a match: a backslash must be followed by a backslash, by one
\* of the letters a b f n r t v, by 0, by g<0>, or by a character that is
\* not an ASCII letter or digit; anything else raises re.error (the pattern
\* has no group to refer to)
RECURSIVE TemplateError(_, _)
TemplateError(replacement, k) ==
  IF k > Len(replacement) THEN FALSE
  ELSE IF replacement[k] # 92 THEN TemplateError(replacement, k + 1)
  ELSE IF k = Len(replacement) THEN TRUE
  ELSE LET c == replacement[k + 1]
       IN  IF c \in {97, 98, 102, 110, 114, 116, 118, 48, 92}
           THEN TemplateError(replacement, k + 2)
           ELSE IF c = 103
           THEN IF k + 4 <= Len(replacement)
                   /\ SubSeq(replacement, k + 2, k + 4) = <<60, 48, 62>>
                THEN TemplateError(replacement, k + 5)
                ELSE TRUE
           ELSE IF c \in (49..57) \cup (65..90) \cup (97..122) THEN TRUE
           ELSE TemplateError(replacement, k + 2)

\* the text a well-formed template stands for when the pattern matches
\* `matched`
RECURSIVE ExpandTemplate(_, _, _)
ExpandTemplate(replacement, matched, k) ==
  IF k > Len(replacement) THEN <<>>
  ELSE IF replacement[k] # 92 \/ k = Len(replacement)
  THEN <<replacement[k]>> \o ExpandTemplate(replacement, matched, k + 1)
  ELSE LET c == replacement[k + 1]
       IN  CASE c = 92  -> <<92>> \o ExpandTemplate(replacement, matched, k + 2)
             [] c = 97  -> <<7>>  \o ExpandTemplate(replacement, matched, k + 2)
             [] c = 98  -> <<8>>  \o ExpandTemplate(replacement, matched, k + 2)
             [] c = 102 -> <<12>> \o ExpandTemplate(replacement, matched, k + 2)
             [] c = 110 -> <<10>> \o ExpandTemplate(replacement, matched, k + 2)
             [] c = 114 -> <<13>> \o ExpandTemplate(replacement, matched, k + 2)
             [] c = 116 -> <<9>>  \o ExpandTemplate(replacement, matched, k + 2)
             [] c = 118 -> <<11>> \o ExpandTemplate(replacement, matched, k + 2)
             [] c = 48  -> <<0>>  \o ExpandTemplate(replacement, matched, k + 2)
             [] c = 103 -> matched \o ExpandTemplate(replacement, matched, k + 5)
             [] OTHER   -> <<92, c>> \o ExpandTemplate(replacement, matched, k + 2)

\* _replace_word: pattern.sub(replacement, text), from position i
RECURSIVE SFilter_sub_from(_, _, _, _)
SFilter_sub_from(text, word, replacement, i) ==
  IF i > Len(text) THEN <<>>
  ELSE IF MatchAt(text, word, i)
       THEN ExpandTemplate(replacement, SubSeq(text, i, i + Len(word) - 1), 1)
              \o SFilter_sub_from(text, word, replacement, i + Len(word))
       ELSE <<text[i]>> \o SFilter_sub_from(text, word, replacement, i + 1)

SFilter_replace_word(text, word, replacement) ==
  IF 92 \in Range(replacement)
  THEN SFilter_sub_from(text, word, replacement, 1)
  ELSE SFilter_replace_from(text, word, replacement, 1)

\* a variant that appends the group reference \1 to the replacement
SFilter_replacement_group_reference(word, lang, use_synonyms) ==
  (IF use_synonyms
   THEN LET rep == SFilter_get_synonym(word, lang)
        IN  IF rep = word THEN Mask(word) ELSE rep
   ELSE Mask(word)) \o <<92, 49>>

\* a variant that masks the highly abusive words whatever the mode
SFilter_replacement_strict(word, lang, use_synonyms) ==
  IF use_synonyms /\ word \notin Range(ForLanguage(highly_abusive, lang))
  THEN LET rep == SFilter_get_synonym(word, lang)
       IN  IF rep = word THEN Mask(word) ELSE rep
  ELSE Mask(word)

\* the replacement of one found word: its synonym, or asterisks when it has
\* none (rep == word) or when masking
SFilter_replacement(word, lang, use_synonyms) ==
  IF use_synonyms
  THEN LET rep == SFilter_get_synonym(word, lang)
       IN  IF rep = word THEN Mask(word) ELSE rep
  ELSE Mask(word)

\* a variant of the loop that records a word only when it has a synonym
SFilter_replacements_synonyms_only(found, lang, use_synonyms) ==
  [word \in {w \in Range(found) : SFilter_get_synonym(w, lang) # w} |->
     SFilter_replacement(word, lang, use_synonyms)]

\* the dict the loop fills: replacements[word] = rep
SFilter_replacements(found, lang, use_synonyms) ==
  [word \in Range(found) |-> SFilter_replacement(word, lang, use_synonyms)]

\* the loop `for word in found`, from found[k] on
RECURSIVE SFilter_substitute(_, _, _, _, _)
SFilter_substitute(cleaned, found, k, lang, use_synonyms) ==
  IF k > Len(found) THEN cleaned
  ELSE SFilter_substitute(
         SFilter_replace_word(cleaned, found[k],
                         SFilter_replacement(found[k], lang, use_synonyms)),
         found, k + 1, lang, use_synonyms)

\* filter_detailed raises: the only call of it that can raise on a str is
\* pattern.sub (re.error for a malformed template), made once for each
\* found word
SFilter_raises(self, text, use_synonyms, found) ==
  /\ text # <<>>
  /\ \E k \in 1..Len(found) :
       TemplateError(SFilter_replacement(found[k], SFilter_language(self, text),
                                         use_synonyms), 1)

\* filter_detailed; `found` is the list the loop over the set all_words built
SFilter_filter_detailed(self, available, wordset, text, use_synonyms, found) ==
  IF text = <<>>
  THEN [original_text |-> text, cleaned_text |-> text, profane_words |-> {},
        replacements |-> <<>>, detected_language |-> self.language]
  ELSE
    LET lang  == SFilter_language(self, text)
        start == IF ~use_synonyms /\ available THEN censor(wordset, text)
                 ELSE text
    IN  [original_text |-> text,
         cleaned_text |-> SFilter_substitute(start, found, 1, lang, use_synonyms),
         profane_words |-> Range(found),
         replacements |-> SFilter_replacements(found, lang, use_synonyms),
         detected_language |-> lang]

(***************************************************************************)
(* TextSafetyLayer (src/text_safety_layer.py)                             *)
(***************************************************************************)
\* text.split(): the maximal runs of non-whitespace characters
Split(text) ==
  {SubSeq(text, i, j) : <<i, j>> \in
     {p \in (1..Len(text)) \X (1..Len(text)) :
        /\ p[1] <= p[2]
        /\ \A k \in p[1]..p[2] : ~IsSpace(text[k])
        /\ p[1] = 1 \/ IsSpace(text[p[1] - 1])
        /\ p[2] = Len(text) \/ IsSpace(text[p[2] + 1])}}

\* the characters of word.strip('.,!?;:()[]{}"\\'')
StripChars == {46, 44, 33, 63, 59, 58, 40, 41, 91, 93, 123, 125, 34, 92, 39}

\* word.strip(chars)
Strip(word) ==
  LET kept == {i \in 1..Len(word) : word[i] \notin StripChars}
  IN  IF kept = {} THEN <<>>
      ELSE SubSeq(word, CHOOSE i \in kept : \A k \in kept : i <= k,
                        CHOOSE j \in kept : \A k \in kept : k <= j)

\* _find_profane_words: the words of the custom list that occur in the text,
\* and the cleaned tokens the library flags
TSL_find_profane_words(self, wordset, text) ==
  LET text_lower == Lower(text)
      custom == {word \in Range(ForLanguage(self.custom_profane_words, self.language)) :
                   Contains(text_lower, Lower(word))}
      flagged == {Strip(word) : word \in
                   {w \in Split(text) : contains_profanity(wordset, Strip(w))}}
  IN  custom \cup flagged

\* _match_case
TSL_match_case(replacement, original) ==
  IF IsUpper(original) THEN Upper(replacement)
  ELSE IF original # <<>> /\ IsAsciiUpper(original[1]) THEN Capitalize(replacement)
  ELSE Lower(replacement)

\* _get_synonym: the synonym shaped like the word, else asterisks
TSL_get_synonym(self, word) ==
  LET table == ForLanguage(self.synonym_map, self.language)
  IN  IF DictHas(table, Lower(word))
      THEN TSL_match_case(DictGet(table, Lower(word)), word)
      ELSE Mask(word)

\* _replace_word: pattern.sub(replace_match, text), from position i
RECURSIVE TSL_replace_from(_, _, _, _)
TSL_replace_from(text, word, replacement, i) ==
  IF i > Len(text) THEN <<>>
  ELSE IF MatchAt(text, word, i)
       THEN TSL_match_case(replacement, SubSeq(text, i, i + Len(word) - 1))
              \o TSL_replace_from(text, word, replacement, i + Len(word))
       ELSE <<text[i]>> \o TSL_replace_from(text, word, replacement, i + 1)

TSL_replace_word(text, word, replacement) ==
  TSL_replace_from(text, word, replacement, 1)

\* the loop `for word in profane_words` of the synonym branch
RECURSIVE TSL_substitute(_, _, _, _)
TSL_substitute(self, filtered_text, profane_words, k) ==
  IF k > Len(profane_words) THEN filtered_text
  ELSE TSL_substitute(self,
         TSL_replace_word(filtered_text, profane_words[k],
                          TSL_get_synonym(self, profane_words[k])),
         profane_words, k + 1)

\* filter_text; `profane_words` is the list list(set(words_found)).  The
\* result's filtered_text, profane_words_found and replacements_made are
\* named as in the other two engines.
TSL_filter_text(self, wordset, text, use_synonyms, profane_words) ==
  IF text = <<>> \/ \A i \in 1..Len(text) : IsSpace(text[i])
  THEN [original_text |-> text, cleaned_text |-> text, is_profane |-> FALSE,
        profane_words |-> {}, replacements |-> <<>>]
  ELSE IF profane_words = <<>>
  THEN [original_text |-> text, cleaned_text |-> text,
        is_profane |-> contains_profanity(wordset, text),
        profane_words |-> {}, replacements |-> <<>>]
  ELSE [original_text |-> text,
        cleaned_text |->
          IF use_synonyms THEN TSL_substitute(self, text, profane_words, 1)
          ELSE censor(wordset, text),
        is_profane |-> contains_profanity(wordset, text),
        profane_words |-> Range(profane_words),
        replacements |->
          [word \in Range(profane_words) |->
             IF use_synonyms THEN TSL_get_synonym(self, word) ELSE Mask(word)]]

(***************************************************************************)
(* SafetyLayer (src/safety_layer_text.py)                                 *)
(***************************************************************************)
\* detect_language: 'hi' if a Devanagari code point was counted, else 'ta'
\* for Tamil, else 'te' for Telugu, else 'en'
SL_detect_language(text) ==
  LET devanagari == Cardinality({i \in 1..Len(text) : text[i] \in 2304..2431})
      tamil      == Cardinality({i \in 1..Len(text) : text[i] \in 2944..3071})
      telugu     == Cardinality({i \in 1..Len(text) : text[i] \in 3072..3199})
  IN  IF devanagari > 0 THEN "hi"
      ELSE IF tamil > 0 THEN "ta"
      ELSE IF telugu > 0 THEN "te"
      ELSE "en"

\* the list `found`, in the order of custom_words
SL_found(self, text) ==
  LET words == ForLanguage(custom_words, self.language)
      lower == Lower(text)
      hit(w) == Contains(lower, Lower(w))
  IN  SelectSeq(words, hit)

\* _get_replacement
SL_get_replacement(self, word) ==
  LET table == ForLanguage(layer_synonyms, self.language)
      rep   == IF DictHas(table, Lower(word)) /\ DictGet(table, Lower(word)) # <<>>
               THEN DictGet(table, Lower(word))
               ELSE IF DictHas(table, word) THEN DictGet(table, word) ELSE <<>>
  IN  IF rep # <<>> THEN rep ELSE Mask(word)

\* _replace_word: pattern.sub(_m, text)
SL_replace_word(text, word, replacement) ==
  SFilter_replace_from(text, word, replacement, 1)

RECURSIVE SL_substitute(_, _, _, _)
SL_substitute(self, cleaned, found, k) ==
  IF k > Len(found) THEN cleaned
  ELSE SL_substitute(self,
         SL_replace_word(cleaned, found[k], SL_get_replacement(self, found[k])),
         found, k + 1)

\* profanity_filter_text
SL_profanity_filter_text(self, wordset, text, use_synonyms) ==
  IF text = <<>>
  THEN [original_text |-> text, cleaned_text |-> text, profane_words |-> {},
        replacements |-> <<>>, detected_language |-> self.language]
  ELSE
    LET found == SL_found(self, text)
    IN  [original_text |-> text,
         cleaned_text |->
           IF use_synonyms THEN SL_substitute(self, text, found, 1)
           ELSE censor(wordset, text),
         profane_words |-> Range(found),
         replacements |->
           [word \in Range(found) |->
              IF use_synonyms THEN SL_get_replacement(self, word) ELSE Mask(word)],
         detected_language |-> self.language]

(***************************************************************************)
(* The texts of the model: the empty text, a blank, punctuation, the two  *)
(* sentences of the usage examples, and a fragment repeated up to         *)
(* MaxRepeat times and optionally followed by a second fragment, with one *)
(* separator between the pieces (a space, or nothing, which builds larger *)
(* words).                                                                *)
(***************************************************************************)
MaxRepeat == 1

Fragments ==
  <<
    \* "ass"
    <<97, 115, 115>>,
    \* "fool"
    <<102, 111, 111, 108>>,
    \* "Stupid"
    <<83, 116, 117, 112, 105, 100>>,
    \* "STUPID"
    <<83, 84, 85, 80, 73, 68>>,
    \* "grasshopper"
    <<103, 114, 97, 115, 115, 104, 111, 112, 112, 101, 114>>,
    \* "cock"
    <<99, 111, 99, 107>>,
    \* U+0917 U+0927 U+093E  (hi, ends in the vowel sign U+093E)
    <<2327, 2343, 2366>>,
    \* U+092E U+0942 U+0930 U+094D U+0916  (hi, ends in the letter U+0916)
    <<2350, 2370, 2352, 2381, 2326>>,
    \* U+0BA8 U+0BBE U+0BAF U+0BCD  (ta, ends in the virama U+0BCD)
    <<2984, 3006, 2991, 3021>>,
    \* U+0C15 U+0C41 U+0C15 U+0C4D U+0C15  (te, ends in the letter U+0C15)
    <<3093, 3137, 3093, 3149, 3093>>
  >>

Sentences ==
  {
    \* "You are so stupid for doing that!"
    <<89, 111, 117, 32, 97, 114, 101, 32, 115, 111, 32, 115, 116, 117, 112, 105, 100, 32, 102, 111, 114, 32, 100, 111, 105, 110, 103, 32, 116, 104, 97, 116, 33>>,
    \* "This is a clean sentence."
    <<84, 104, 105, 115, 32, 105, 115, 32, 97, 32, 99, 108, 101, 97, 110, 32, 115, 101, 110, 116, 101, 110, 99, 101, 46>>
  }

Separators == { <<32>>, <<>> }

RECURSIVE Repeated(_, _, _)
Repeated(w, n, sep) ==
  IF n = 0 THEN <<>>
  ELSE IF n = 1 THEN w
  ELSE w \o sep \o Repeated(w, n - 1, sep)

\* "!?"
Punctuation == <<33, 63>>

Texts ==
  { <<>>, <<32>>, Punctuation } \cup Sentences \cup
  UNION { { Repeated(w, n, sep) \o tail :
              w \in Range(Fragments), n \in 1..MaxRepeat,
              tail \in {<<>>} \cup {sep \o v : v \in Range(Fragments)} } :
          sep \in Separators }

\* the language codes a caller passes to a constructor
Languages == SUPPORTED_LANGUAGES \cup {"fr"}

Kinds == {"SafetyFilter", "TextSafetyLayer", "SafetyLayer"}

NoEngine == [kind |-> "none"]
NoCall   == [state |-> "idle"]

\* the callers that share the engine
Callers == {"caller1", "caller2"}

\* a caller that has no filter call in progress
NoThread == [pc |-> "Idle"]

(***************************************************************************)
(* The state machine: the import, one constructor call, filter calls.     *)
(***************************************************************************)
Init ==
  /\ BETTER_PROFANITY_AVAILABLE \in BOOLEAN
  \* the library's module-level `profanity` loads the default list on import
  /\ CENSOR_WORDSET = IF BETTER_PROFANITY_AVAILABLE THEN load_censor_words ELSE {}
  /\ engine = NoEngine
  /\ raised = "none"
  /\ call = NoCall
  /\ threads = [c \in Callers |-> NoThread]
  /\ engine2 = NoEngine

\* SafetyFilter(language, auto_detect)
SFilter_init(language, auto_detect) ==
  /\ engine = NoEngine
  /\ IF language \notin SUPPORTED_LANGUAGES
     THEN /\ raised' = "ValueError"
          /\ UNCHANGED <<engine, CENSOR_WORDSET>>
     ELSE /\ raised' = "none"
          /\ engine' = [kind |-> "SafetyFilter", language |-> language,
                        auto_detect |-> auto_detect]
          /\ CENSOR_WORDSET' =
               IF BETTER_PROFANITY_AVAILABLE /\ language \in DOMAIN highly_abusive
               THEN add_censor_words(load_censor_words,
                      ForLanguage(highly_abusive, language)
                        \o ForLanguage(racial_slurs, language))
               ELSE IF BETTER_PROFANITY_AVAILABLE THEN load_censor_words
               ELSE CENSOR_WORDSET
  /\ UNCHANGED <<BETTER_PROFANITY_AVAILABLE, call, threads, engine2>>

\* TextSafetyLayer(language); the module imports the library unconditionally
TSL_init(language) ==
  /\ engine = NoEngine
  /\ BETTER_PROFANITY_AVAILABLE
  /\ IF language \notin SUPPORTED_LANGUAGES
     THEN /\ raised' = "ValueError"
          /\ UNCHANGED <<engine, CENSOR_WORDSET>>
     ELSE /\ raised' = "none"
          /\ engine' = [kind |-> "TextSafetyLayer", language |-> language,
                        auto_detect |-> FALSE,
                        custom_profane_words |-> custom_profane_words,
                        synonym_map |-> synonym_map]
          /\ CENSOR_WORDSET' =
               IF language \in DOMAIN custom_profane_words
               THEN add_censor_words(load_censor_words,
                                     custom_profane_words[language])
               ELSE load_censor_words
  /\ UNCHANGED <<BETTER_PROFANITY_AVAILABLE, call, threads, engine2>>

\* SafetyLayer(language): the language is stored unchecked
SL_init(language) ==
  /\ engine = NoEngine
  /\ BETTER_PROFANITY_AVAILABLE
  /\ raised' = "none"
  /\ engine' = [kind |-> "SafetyLayer", language |-> language,
                auto_detect |-> FALSE]
  /\ CENSOR_WORDSET' =
       IF language \in DOMAIN custom_words
       THEN add_censor_words(load_censor_words, custom_words[language])
       ELSE load_censor_words
  /\ UNCHANGED <<BETTER_PROFANITY_AVAILABLE, call, threads, engine2>>

Construct ==
  \E language \in Languages :
    \/ \E auto_detect \in BOOLEAN : SFilter_init(language, auto_detect)
    \/ TSL_init(language)
    \/ SL_init(language)

\* the orders in which the engine's loop can meet the words it finds
FoundOrders(self, wordset, text) ==
  CASE self.kind = "SafetyFilter" ->
         Orders(SFilter_found(text, SFilter_language(self, text)))
    [] self.kind = "TextSafetyLayer" ->
         Orders(TSL_find_profane_words(self, wordset, text))
    [] self.kind = "SafetyLayer" -> {SL_found(self, text)}

\* the filter call raises instead of returning.  TextSafetyLayer and
\* SafetyLayer substitute by a function (replace_match, _m), whose value is
\* written as it is, and index no str or dict without a test before it
\* (`if original else False`, dict.get); the library's censor and
\* contains_profanity return for every str.
FilterRaises(self, text, use_synonyms, found) ==
  CASE self.kind = "SafetyFilter" -> SFilter_raises(self, text, use_synonyms, found)
    [] self.kind = "TextSafetyLayer" -> FALSE
    [] self.kind = "SafetyLayer" -> FALSE

\* one filter call on the engine, start to result
FilterResult(self, available, wordset, text, use_synonyms, found) ==
  CASE self.kind = "SafetyFilter" ->
         SFilter_filter_detailed(self, available, wordset, text, use_synonyms, found)
    [] self.kind = "TextSafetyLayer" ->
         TSL_filter_text(self, wordset, text, use_synonyms, found)
    [] self.kind = "SafetyLayer" ->
         SL_profanity_filter_text(self, wordset, text, use_synonyms)

\* what the caller of a filter call gets: the exception or the result.
\* `first` is the text the caller started from and `again` tells that the
\* text of this call is the cleaned text of the call before.
Outcome(self, available, wordset, text, use_synonyms, found, first, again) ==
  IF FilterRaises(self, text, use_synonyms, found)
  THEN [state |-> "raised", text |-> text, use_synonyms |-> use_synonyms,
        first |-> first, again |-> again, error |-> "re.error"]
  ELSE [state |-> "done", text |-> text, use_synonyms |-> use_synonyms,
        first |-> first, again |-> again,
        result |-> FilterResult(self, available, wordset, text, use_synonyms, found)]

\* a filter call on one of the given texts
FilterOn(texts) ==
  /\ engine # NoEngine
  /\ call = NoCall
  /\ \E text \in texts, use_synonyms \in BOOLEAN :
       \E found \in FoundOrders(engine, CENSOR_WORDSET, text) :
         call' = Outcome(engine, BETTER_PROFANITY_AVAILABLE, CENSOR_WORDSET,
                         text, use_synonyms, found, text, FALSE)
  /\ UNCHANGED <<BETTER_PROFANITY_AVAILABLE, CENSOR_WORDSET, engine, raised, threads, engine2>>

Filter == FilterOn(Texts)

\* the caller passes the cleaned text of a call through the same engine
\* once more, in the same mode
Refilter ==
  /\ call.state = "done"
  /\ ~call.again
  /\ \E found \in FoundOrders(engine, CENSOR_WORDSET, call.result.cleaned_text) :
       call' = Outcome(engine, BETTER_PROFANITY_AVAILABLE, CENSOR_WORDSET,
                       call.result.cleaned_text, call.use_synonyms, found,
                       call.text, TRUE)
  /\ UNCHANGED <<BETTER_PROFANITY_AVAILABLE, CENSOR_WORDSET, engine, raised, threads, engine2>>

\* engine.detect_language(text), called by a user of the engine as the
\* command-line entry points do; TextSafetyLayer has no such method
DetectLanguage ==
  /\ engine.kind \in {"SafetyFilter", "SafetyLayer"}
  /\ call = NoCall
  /\ \E text \in Texts :
       call' = [state |-> "detected", text |-> text,
                result |-> IF engine.kind = "SafetyFilter"
                           THEN detect_language(text)
                           ELSE SL_detect_language(text)]
  /\ UNCHANGED <<BETTER_PROFANITY_AVAILABLE, CENSOR_WORDSET, engine, raised, threads, engine2>>

\* the caller takes the result; the engine keeps nothing of the call
Return ==
  /\ call # NoCall
  /\ call' = NoCall
  /\ UNCHANGED <<BETTER_PROFANITY_AVAILABLE, CENSOR_WORDSET, engine, raised, threads, engine2>>

Next == Construct \/ Filter \/ Refilter \/ DetectLanguage \/ Return

Spec == Init /\ [][Next]_vars

(***************************************************************************)
(* The filter call step by step, for several callers of one engine.  A    *)
(* caller's call is at Called (arguments bound), LanguageResolved,        *)
(* MatchesFound, Substituted or Done; its `trace` lists the stages it has *)
(* passed.  Every stage reads the engine and the library's word list as   *)
(* they are when the stage runs; what the call computes is kept in the    *)
(* caller's own record, as the code keeps it in local variables.          *)
(***************************************************************************)
SharedTexts ==
  { <<>>, <<32>>,
    \* "ass fool"
    <<97, 115, 115, 32, 102, 111, 111, 108>>,
    \* U+0917 U+0927 U+093E
    <<2327, 2343, 2366>> }

\* the test at the head of the filter method that returns at once:
\* `not text`, and in TextSafetyLayer `not text or not text.strip()`
EntryTest(self, text) ==
  IF self.kind = "TextSafetyLayer"
  THEN text = <<>> \/ \A i \in 1..Len(text) : IsSpace(text[i])
  ELSE text = <<>>

Invoke(c) ==
  /\ engine # NoEngine
  /\ threads[c].pc = "Idle"
  /\ \E text \in SharedTexts, use_synonyms \in BOOLEAN :
       threads' = [threads EXCEPT ![c] =
                     [pc |-> "Called", text |-> text, use_synonyms |-> use_synonyms,
                      trace |-> <<>>, detector |-> FALSE, lang |-> "none",
                      found |-> <<>>, result |-> <<>>]]
  /\ UNCHANGED <<BETTER_PROFANITY_AVAILABLE, CENSOR_WORDSET, engine, raised, call, engine2>>

\* the early return; the result is the one the method builds there
ShortCircuit(c) ==
  /\ threads[c].pc = "Called"
  /\ EntryTest(engine, threads[c].text)
  /\ threads' = [threads EXCEPT ![c] =
                   [@ EXCEPT !.pc = "Done",
                             !.result = FilterResult(engine, BETTER_PROFANITY_AVAILABLE,
                                          CENSOR_WORDSET, threads[c].text,
                                          threads[c].use_synonyms, <<>>)]]
  /\ UNCHANGED <<BETTER_PROFANITY_AVAILABLE, CENSOR_WORDSET, engine, raised, call, engine2>>

\* lang = self.detect_language(text) if self.auto_detect else self.language;
\* TextSafetyLayer and SafetyLayer use self.language
ResolveLanguage(c) ==
  /\ threads[c].pc = "Called"
  /\ ~EntryTest(engine, threads[c].text)
  /\ threads' = [threads EXCEPT ![c] =
                   [@ EXCEPT !.pc = "LanguageResolved",
                             !.trace = Append(@, "LanguageResolved"),
                             !.detector = (engine.kind = "SafetyFilter"
                                             /\ engine.auto_detect),
                             !.lang = IF engine.kind = "SafetyFilter"
                                      THEN SFilter_language(engine, threads[c].text)
                                      ELSE engine.language]]
  /\ UNCHANGED <<BETTER_PROFANITY_AVAILABLE, CENSOR_WORDSET, engine, raised, call, engine2>>

\* a variant of the matching stage that also registers the words it finds
\* with the library (profanity.add_censor_words(found))
Match_registering(c) ==
  /\ threads[c].pc = "LanguageResolved"
  /\ \E found \in FoundOrders(engine, CENSOR_WORDSET, threads[c].text) :
       /\ threads' = [threads EXCEPT ![c] =
            [@ EXCEPT !.pc = "MatchesFound",
                      !.trace = Append(@, "MatchesFound"),
                      !.found = found]]
       /\ CENSOR_WORDSET' = add_censor_words(CENSOR_WORDSET, found)
  /\ UNCHANGED <<BETTER_PROFANITY_AVAILABLE, engine, raised, call, engine2>>

\* the loop that builds `found`; TextSafetyLayer returns here when it has
\* found nothing
Match(c) ==
  /\ threads[c].pc = "LanguageResolved"
  /\ \E found \in FoundOrders(engine, CENSOR_WORDSET, threads[c].text) :
       threads' = [threads EXCEPT ![c] =
         IF engine.kind = "TextSafetyLayer" /\ found = <<>>
         THEN [@ EXCEPT !.pc = "Done",
                        !.trace = Append(@, "MatchesFound"),
                        !.result = FilterResult(engine, BETTER_PROFANITY_AVAILABLE,
                                     CENSOR_WORDSET, threads[c].text,
                                     threads[c].use_synonyms, found)]
         ELSE [@ EXCEPT !.pc = "MatchesFound",
                        !.trace = Append(@, "MatchesFound"),
                        !.found = found]]
  /\ UNCHANGED <<BETTER_PROFANITY_AVAILABLE, CENSOR_WORDSET, engine, raised, call, engine2>>

\* the loop over `found`, or profanity.censor, that builds the cleaned text
\* and the replacements
Substitute(c) ==
  /\ threads[c].pc = "MatchesFound"
  /\ threads' = [threads EXCEPT ![c] =
       IF FilterRaises(engine, threads[c].text, threads[c].use_synonyms,
                       threads[c].found)
       THEN [@ EXCEPT !.pc = "Raised"]
       ELSE [@ EXCEPT !.pc = "Substituted",
                      !.trace = Append(@, "Substituted"),
                      !.result = FilterResult(engine, BETTER_PROFANITY_AVAILABLE,
                                   CENSOR_WORDSET, threads[c].text,
                                   threads[c].use_synonyms, threads[c].found)]]
  /\ UNCHANGED <<BETTER_PROFANITY_AVAILABLE, CENSOR_WORDSET, engine, raised, call, engine2>>

\* return FilterResult(...)
ReturnResult(c) ==
  /\ threads[c].pc = "Substituted"
  /\ threads' = [threads EXCEPT ![c] = [@ EXCEPT !.pc = "Done"]]
  /\ UNCHANGED <<BETTER_PROFANITY_AVAILABLE, CENSOR_WORDSET, engine, raised, call, engine2>>

\* the caller has the result (or the exception) and may call again
Take(c) ==
  /\ threads[c].pc \in {"Done", "Raised"}
  /\ threads' = [threads EXCEPT ![c] = NoThread]
  /\ UNCHANGED <<BETTER_PROFANITY_AVAILABLE, CENSOR_WORDSET, engine, raised, call, engine2>>

NextShared ==
  \/ Construct
  \/ \E c \in Callers :
       \/ Invoke(c)
       \/ ShortCircuit(c)
       \/ ResolveLanguage(c)
       \/ Match(c)
       \/ Substitute(c)
       \/ ReturnResult(c)
       \/ Take(c)

SpecShared == Init /\ [][NextShared]_vars

(***************************************************************************)
(* The administrative operations of TextSafetyLayer, between filter calls.*)
(***************************************************************************)
\* the most words add_custom_words adds to a list in a run of the model
MaxAddedWords == 2

\* the lists passed to add_custom_words
AdminWordLists ==
  { \* ["fool"]
    <<<<102, 111, 111, 108>>>>,
    \* ["Stupid", "fool"]
    <<<<83, 116, 117, 112, 105, 100>>, <<102, 111, 111, 108>>>> }

\* the (profane_word, synonym) pairs passed to add_synonym
AdminSynonyms ==
  { \* ("stupid", "silly")
    <<<<115, 116, 117, 112, 105, 100>>, <<115, 105, 108, 108, 121>>>>,
    \* ("Fool", "joker")
    <<<<70, 111, 111, 108>>, <<106, 111, 107, 101, 114>>>> }

\* "Stupid"
AdminTexts == SharedTexts \cup {<<83, 116, 117, 112, 105, 100>>}

\* add_custom_words(words)
AddCustomWords ==
  /\ engine.kind = "TextSafetyLayer"
  /\ call = NoCall
  /\ \E words \in AdminWordLists :
       /\ Len(ForLanguage(engine.custom_profane_words, engine.language)) + Len(words)
            <= Len(ForLanguage(custom_profane_words, engine.language)) + MaxAddedWords
       /\ CENSOR_WORDSET' = add_censor_words(CENSOR_WORDSET, words)
       /\ engine' =
            [engine EXCEPT !.custom_profane_words =
               IF engine.language \in DOMAIN @
               THEN [@ EXCEPT ![engine.language] = @ \o words]
               ELSE [l \in DOMAIN @ \cup {engine.language} |->
                       IF l = engine.language THEN words ELSE @[l]]]
  /\ UNCHANGED <<BETTER_PROFANITY_AVAILABLE, raised, call, threads, engine2>>

\* add_synonym(profane_word, synonym)
AddSynonym ==
  /\ engine.kind = "TextSafetyLayer"
  /\ call = NoCall
  /\ \E pair \in AdminSynonyms :
       engine' =
         [engine EXCEPT !.synonym_map =
            IF engine.language \in DOMAIN @
            THEN [@ EXCEPT ![engine.language] = DictSet(@, Lower(pair[1]), pair[2])]
            ELSE [l \in DOMAIN @ \cup {engine.language} |->
                    IF l = engine.language
                    THEN <<<<Lower(pair[1]), pair[2]>>>> ELSE @[l]]]
  /\ UNCHANGED <<BETTER_PROFANITY_AVAILABLE, CENSOR_WORDSET, raised, call, threads, engine2>>

AdminFilter == FilterOn(AdminTexts)

NextAdmin ==
  Construct \/ AddCustomWords \/ AddSynonym \/ AdminFilter \/ Return

SpecAdmin == Init /\ [][NextAdmin]_vars

(***************************************************************************)
(* Two engines in one process.  Every constructor calls                   *)
(* profanity.load_censor_words() and profanity.add_censor_words() on the  *)
(* one `profanity` object of the library, whatever engine was constructed *)
(* before it.                                                             *)
(***************************************************************************)
\* the constructor raises ValueError; SafetyLayer checks nothing
InitRaises(kind, language) ==
  /\ kind \in {"SafetyFilter", "TextSafetyLayer"}
  /\ language \notin SUPPORTED_LANGUAGES

\* the object a constructor call that returns leaves to its caller
NewEngine(kind, language, auto_detect) ==
  CASE kind = "SafetyFilter" ->
         [kind |-> "SafetyFilter", language |-> language,
          auto_detect |-> auto_detect]
    [] kind = "TextSafetyLayer" ->
         [kind |-> "TextSafetyLayer", language |-> language,
          auto_detect |-> FALSE,
          custom_profane_words |-> custom_profane_words,
          synonym_map |-> synonym_map]
    [] kind = "SafetyLayer" ->
         [kind |-> "SafetyLayer", language |-> language,
          auto_detect |-> FALSE]

\* the word lists an engine of the kind hands to the library
WordLists(kind) ==
  CASE kind = "SafetyFilter" ->
         [l \in DOMAIN highly_abusive |->
            ForLanguage(highly_abusive, l) \o ForLanguage(racial_slurs, l)]
    [] kind = "TextSafetyLayer" -> custom_profane_words
    [] kind = "SafetyLayer" -> custom_words

\* the library's word list after a constructor call that returns
CensorWordsAfterInit(kind, language, available, wordset) ==
  IF ~available THEN wordset
  ELSE IF language \in DOMAIN WordLists(kind)
       THEN add_censor_words(load_censor_words, WordLists(kind)[language])
       ELSE load_censor_words

\* a second engine is constructed while the first one is in use
ConstructSecond ==
  /\ engine # NoEngine
  /\ engine2 = NoEngine
  /\ call = NoCall
  /\ \E kind \in Kinds, language \in Languages, auto_detect \in BOOLEAN :
       /\ kind # "SafetyFilter" => BETTER_PROFANITY_AVAILABLE /\ ~auto_detect
       /\ IF InitRaises(kind, language)
          THEN /\ raised' = "ValueError"
               /\ UNCHANGED <<engine2, CENSOR_WORDSET>>
          ELSE /\ raised' = "none"
               /\ engine2' = NewEngine(kind, language, auto_detect)
               /\ CENSOR_WORDSET' =
                    CensorWordsAfterInit(kind, language,
                                         BETTER_PROFANITY_AVAILABLE, CENSOR_WORDSET)
  /\ UNCHANGED <<BETTER_PROFANITY_AVAILABLE, engine, call, threads>>

\* add_custom_words(words) on the second engine
SecondAddCustomWords ==
  /\ engine2.kind = "TextSafetyLayer"
  /\ call = NoCall
  /\ \E words \in AdminWordLists :
       /\ Len(ForLanguage(engine2.custom_profane_words, engine2.language)) + Len(words)
            <= Len(ForLanguage(custom_profane_words, engine2.language)) + MaxAddedWords
       /\ CENSOR_WORDSET' = add_censor_words(CENSOR_WORDSET, words)
       /\ engine2' =
            [engine2 EXCEPT !.custom_profane_words =
               IF engine2.language \in DOMAIN @
               THEN [@ EXCEPT ![engine2.language] = @ \o words]
               ELSE [l \in DOMAIN @ \cup {engine2.language} |->
                       IF l = engine2.language THEN words ELSE @[l]]]
  /\ UNCHANGED <<BETTER_PROFANITY_AVAILABLE, engine, raised, call, threads>>

NextEngines ==
  Construct \/ ConstructSecond \/ SecondAddCustomWords \/ AdminFilter \/ Return

SpecEngines == Init /\ [][NextEngines]_vars

(***************************************************************************)
(* The vocabulary of the properties.  A result names its fields alike for *)
(* the three engines: original_text, cleaned_text, profane_words (the     *)
(* matched terms) and replacements.                                       *)
(***************************************************************************)
\* the language whose lexicon a call on the engine uses
ResolvedLanguage(self, text) ==
  IF self.kind = "SafetyFilter" THEN SFilter_language(self, text)
  ELSE self.language

\* the word list the engine holds for a language; the English words of
\* TextSafetyLayer are the library's default list and the "additional
\* English words not in better-profanity default"
Lexicon(kind, lang) ==
  CASE kind = "SafetyFilter"    -> SFilter_all_words(lang)
    [] kind = "TextSafetyLayer" ->
         Range(ForLanguage(custom_profane_words, lang))
           \cup (IF lang = "en" THEN DefaultCensorWords ELSE {})
    [] kind = "SafetyLayer"     -> Range(ForLanguage(custom_words, lang))

\* the synonym table the engine holds for a language
SynonymTable(kind, lang) ==
  CASE kind = "SafetyFilter"    -> ForLanguage(synonyms, lang)
    [] kind = "TextSafetyLayer" -> ForLanguage(synonym_map, lang)
    [] kind = "SafetyLayer"     -> ForLanguage(layer_synonyms, lang)

\* the replacement the synonym-preferred policy resolves for a term
SynonymOrMask(kind, lang, term) ==
  IF DictHas(SynonymTable(kind, lang), Lower(term))
  THEN DictGet(SynonymTable(kind, lang), Lower(term))
  ELSE Mask(term)

\* the term is written in a script that has case
IsCased(term) ==
  \A k \in 1..Len(term) : IsAsciiUpper(term[k]) \/ IsAsciiLower(term[k])

\* no recorded replacement writes the term back into the text
NotWrittenBack(result, term) ==
  \A v \in DOMAIN result.replacements :
    ~Contains(Lower(result.replacements[v]), Lower(term))

\* a character of a written word: a letter, a digit or a combining mark
IsLetterLike(c) == IsWordChar(c) \/ IsMark(c)

\* the term stands at position i of t as a word of its own, in any casing
StandsAloneAt(t, term, i) ==
  /\ i + Len(term) - 1 <= Len(t)
  /\ \A k \in 1..Len(term) : LowerChar(t[i + k - 1]) = LowerChar(term[k])
  /\ i = 1 \/ ~IsLetterLike(t[i - 1])
  /\ i + Len(term) > Len(t) \/ ~IsLetterLike(t[i + Len(term)])

\* the term occurs at position i of t inside a larger word
InsideWordAt(t, term, i) ==
  /\ i + Len(term) - 1 <= Len(t)
  /\ \A k \in 1..Len(term) : LowerChar(t[i + k - 1]) = LowerChar(term[k])
  /\ ~StandsAloneAt(t, term, i)

StandsAlone(t, term) == \E i \in 1..Len(t) : StandsAloneAt(t, term, i)

\* c from position j on is t from position i on with every stand-alone
\* occurrence of a term replaced by the term's entry in repl and every other
\* character kept
RECURSIVE IsRewriting(_, _, _, _, _, _)
IsRewriting(t, c, terms, repl, i, j) ==
  IF i > Len(t) THEN j = Len(c) + 1
  ELSE
    LET here == {w \in terms : StandsAloneAt(t, w, i)}
    IN  IF here # {}
        THEN \E w \in here :
               /\ j + Len(repl[w]) - 1 <= Len(c)
               /\ SubSeq(c, j, j + Len(repl[w]) - 1) = repl[w]
               /\ IsRewriting(t, c, terms, repl, i + Len(w), j + Len(repl[w]))
        ELSE /\ j <= Len(c)
             /\ c[j] = t[i]
             /\ IsRewriting(t, c, terms, repl, i + 1, j + 1)

(***************************************************************************)
(* C1.  After every filter call the set of matched terms is exactly the   *)
(* set of keys of the replacements map: every reported term has an entry  *)
(* and there is no entry for a term that is not reported.                 *)
(***************************************************************************)
C1_MatchedTermsAreTheKeys ==
  call.state = "done" =>
    call.result.profane_words = DOMAIN call.result.replacements

\* a call that reported two terms, one with a synonym and one masked
C1_TwoTermsRecorded ==
  /\ call.state = "done"
  /\ engine.kind = "SafetyFilter"
  /\ call.use_synonyms
  /\ Cardinality(call.result.profane_words) = 2
  /\ \E w \in DOMAIN call.result.replacements :
       call.result.replacements[w] = Mask(w)
  /\ \E w \in DOMAIN call.result.replacements :
       call.result.replacements[w] # Mask(w)

(***************************************************************************)
(* C2.  After every filter call cleaned_text is original_text with every  *)
(* whole-word, case-insensitive occurrence of every matched term replaced *)
(* by that term's entry in the replacements map, and every other          *)
(* character unchanged.                                                   *)
(***************************************************************************)
C2_CleanedTextIsTheRewriting ==
  call.state = "done" =>
    IsRewriting(call.result.original_text, call.result.cleaned_text,
                call.result.profane_words, call.result.replacements, 1, 1)

(***************************************************************************)
(* C3.  Replacement happens only at word boundaries: a text whose only    *)
(* occurrences of lexicon terms are inside larger words is returned       *)
(* unchanged, and every occurrence of a matched term that stands alone as *)
(* a word is replaced (none is left in cleaned_text, unless a recorded    *)
(* replacement itself writes the term).                                   *)
(***************************************************************************)
C3_ReplacedExactlyAtWordBoundaries ==
  call.state = "done" =>
    LET t   == call.result.original_text
        c   == call.result.cleaned_text
        lex == Lexicon(engine.kind, ResolvedLanguage(engine, t))
    IN  /\ (\A w \in lex : ~StandsAlone(t, w)) => c = t
        /\ \A w \in call.result.profane_words :
             NotWrittenBack(call.result, w) => ~StandsAlone(c, w)

(***************************************************************************)
(* C4.  Non-destructiveness: when no term of the resolved language's      *)
(* lexicon is present in the text, cleaned_text equals original_text and  *)
(* the matched terms and the replacements map are empty.                  *)
(***************************************************************************)
C4_TextWithoutLexiconTermIsUntouched ==
  call.state = "done" =>
    LET t   == call.result.original_text
        lex == Lexicon(engine.kind, ResolvedLanguage(engine, t))
    IN  (\A w \in lex : ~Contains(Lower(t), Lower(w))) =>
          /\ call.result.cleaned_text = t
          /\ call.result.profane_words = {}
          /\ DOMAIN call.result.replacements = {}

(***************************************************************************)
(* C5.  Category policy.  As stated: an engine replaces every matched     *)
(* severe-category term (highly_abusive) with a mask and every matched    *)
(* derogatory-category term (racial_slurs) with its synonym, or a mask if *)
(* it has none, on every filter call.  The only calls in which the code   *)
(* softens any term are those with use_synonyms, so the statement is read *)
(* on them.                                                               *)
(***************************************************************************)
SevereTerms(lang) == Range(ForLanguage(highly_abusive, lang))

StupidSentence ==
  <<89, 111, 117, 32, 97, 114, 101, 32, 115, 111, 32, 115, 116, 117, 112,
    105, 100, 32, 102, 111, 114, 32, 100, 111, 105, 110, 103, 32, 116, 104,
    97, 116, 33>>

UnwiseSentence ==
  <<89, 111, 117, 32, 97, 114, 101, 32, 115, 111, 32, 117, 110, 119, 105,
    115, 101, 32, 102, 111, 114, 32, 100, 111, 105, 110, 103, 32, 116, 104,
    97, 116, 33>>

CaseShaped(synonym, token) ==
  IF IsUpper(token) THEN Upper(synonym)
  ELSE IF IsAsciiUpper(token[1]) /\ \A k \in 2..Len(token) : ~IsAsciiUpper(token[k])
       THEN Capitalize(synonym)
  ELSE Lower(synonym)

\* t from position i on, every stand-alone occurrence of the term replaced
\* by the synonym in the case shape of the occurrence
RECURSIVE CaseShapedRewriting(_, _, _, _)
CaseShapedRewriting(t, term, synonym, i) ==
  IF i > Len(t) THEN <<>>
  ELSE IF StandsAloneAt(t, term, i)
       THEN CaseShaped(synonym, SubSeq(t, i, i + Len(term) - 1))
              \o CaseShapedRewriting(t, term, synonym, i + Len(term))
       ELSE <<t[i]>> \o CaseShapedRewriting(t, term, synonym, i + 1)

C6_SynonymTakesTheCaseOfTheToken ==
  call.state = "done" /\ call.use_synonyms =>
    LET t     == call.result.original_text
        lang  == ResolvedLanguage(engine, t)
        table == SynonymTable(engine.kind, lang)
    IN  \A w \in call.result.profane_words :
          /\ IsCased(w)
          /\ DictHas(table, Lower(w))
          /\ \A v \in call.result.profane_words : Lower(v) = Lower(w)
          => call.result.cleaned_text =
               CaseShapedRewriting(t, w, DictGet(table, Lower(w)), 1)

(***************************************************************************)
(* C7.  Fallback masking: under the synonym-preferred policy a matched    *)
(* term without an entry in the synonym table of the resolved language is *)
(* replaced by exactly len(term) asterisks, and a matched term with an    *)
(* entry is replaced by that synonym, never by a mask.  Case is left to   *)
(* C6: the texts are compared case-folded.  The text is compared when     *)
(* one term is matched.                                                   *)
(***************************************************************************)
C7_SynonymElseMaskOfTermLength ==
  call.state = "done" /\ call.use_synonyms =>
    LET t    == call.result.original_text
        lang == ResolvedLanguage(engine, t)
    IN  \A w \in call.result.profane_words :
          LET expected == Lower(SynonymOrMask(engine.kind, lang, w))
          IN  /\ Lower(call.result.replacements[w]) = expected
              /\ call.result.profane_words = {w} =>
                   IsRewriting(Lower(t), Lower(call.result.cleaned_text),
                               {w}, [v \in {w} |-> expected], 1, 1)

(***************************************************************************)
(* C8.  Mask length: in masking mode every whole-word occurrence of a     *)
(* matched term is replaced in cleaned_text by exactly len(term)          *)
(* asterisks, the string the replacements map records for the term.       *)
(***************************************************************************)
C8_MaskWrittenIsMaskRecorded ==
  call.state = "done" /\ ~call.use_synonyms =>
    /\ \A w \in call.result.profane_words :
         call.result.replacements[w] = Mask(w)
    /\ IsRewriting(call.result.original_text, call.result.cleaned_text,
                   call.result.profane_words, call.result.replacements, 1, 1)

(***************************************************************************)
(* C9.  Detection.  As stated: a lexicon term of the resolved language is *)
(* reported as matched if and only if its case-folded form occurs as a    *)
(* substring of the case-folded text, and no term of another language's   *)
(* lexicon is ever reported.                                              *)
(***************************************************************************)
ReportedIffSubstring(terms, result) ==
  \A w \in terms :
    w \in result.profane_words
      <=> Contains(Lower(result.original_text), Lower(w))

FlaggedTokens(wordset, text) ==
  {tok \in {Strip(w) : w \in Split(text)} : tok # censor(wordset, tok)}

C10_ReportedOnceRewrittenEverywhere ==
  call.state = "done" =>
    \A w \in call.result.profane_words :
      /\ \A v \in call.result.profane_words : Lower(v) = Lower(w) => v = w
      /\ NotWrittenBack(call.result, w)
           => ~StandsAlone(call.result.cleaned_text, w)


(***************************************************************************)
(* C11.  Script-priority detection: detect_language returns "hi" if the   *)
(* text has at least one Devanagari code point, otherwise "ta" if it has  *)
(* at least one Tamil code point, otherwise "te" if it has at least one   *)
(* Telugu code point, otherwise "en"; the result is a function of the set *)
(* of scripts present, not of the number of code points of each.          *)
(***************************************************************************)
\* the text has a code point of the block lo..hi
HasScript(text, lo, hi) == \E i \in 1..Len(text) : text[i] \in lo..hi

\* the number of code points of the block lo..hi in the text
ScriptCount(text, lo, hi) ==
  Cardinality({i \in 1..Len(text) : text[i] \in lo..hi})

\* the first script present, in the order Devanagari, Tamil, Telugu
FirstScriptPresent(text) ==
  IF HasScript(text, 2304, 2431) THEN "hi"
  ELSE IF HasScript(text, 2944, 3071) THEN "ta"
  ELSE IF HasScript(text, 3072, 3199) THEN "te"
  ELSE "en"

ConstructedWith(language) ==
  \/ \E auto_detect \in BOOLEAN : SFilter_init(language, auto_detect)
  \/ TSL_init(language)
  \/ SL_init(language)

C12_UnsupportedLanguageIsRejected ==
  [][\A language \in Languages :
       ConstructedWith(language) =>
         IF language \in SUPPORTED_LANGUAGES
         THEN engine' # NoEngine /\ engine'.language = language /\ raised' = "none"
         ELSE engine' = NoEngine /\ raised' = "ValueError"]_vars


ResultsOfAllOrders(self, text, use_synonyms) ==
  {FilterResult(self, BETTER_PROFANITY_AVAILABLE, CENSOR_WORDSET, text,
                use_synonyms, found) :
     found \in FoundOrders(self, CENSOR_WORDSET, text)}

C19_ResultIndependentOfOrder ==
  call.state = "done" =>
    \A r \in ResultsOfAllOrders(engine, call.text, call.use_synonyms) :
      /\ r.cleaned_text = call.result.cleaned_text
      /\ r.replacements = call.result.replacements


(***************************************************************************)
(* C16.  Idempotence of masking: when the cleaned text t' of a masking    *)
(* call is filtered again in masking mode, the cleaned text is t' again,  *)
(* and no term that has no occurrence left in t' is reported for t'.      *)
(***************************************************************************)
C16_MaskingIsIdempotent ==
  call.state = "done" /\ call.again /\ ~call.use_synonyms =>
    /\ call.result.cleaned_text = call.text
    /\ \A w \in call.result.profane_words :
         Contains(Lower(call.text), Lower(w))

\* the same for the calls whose two texts resolve to one language: in
\* auto-detect mode the language of t' is detected anew, and masking the
\* words of the script that decided the language of t lets t' resolve to
\* another lexicon
C16_MaskingIdempotentInOneLanguage ==
  /\ call.state = "done"
  /\ call.again
  /\ ~call.use_synonyms
  /\ ResolvedLanguage(engine, call.first) = ResolvedLanguage(engine, call.text)
  => /\ call.result.cleaned_text = call.text
     /\ \A w \in call.result.profane_words :
          Contains(Lower(call.text), Lower(w))

\* an auto-detect engine masked a word in the first call and returned the
\* masked text unchanged in the second
C16_MaskedTextFilteredAgain ==
  /\ call.state = "done"
  /\ call.again
  /\ ~call.use_synonyms
  /\ engine.auto_detect
  /\ call.text # call.first
  /\ Contains(call.text, <<42, 42, 42>>)
  /\ ResolvedLanguage(engine, call.first) = ResolvedLanguage(engine, call.text)
  /\ call.result.cleaned_text = call.text

(***************************************************************************)
(* C20.  Output cleanliness: the cleaned text of a call in synonym mode   *)
(* holds no term of the lexicon of the resolved language as a word of its *)
(* own, in any casing, and filtering it again returns it unchanged.       *)
(***************************************************************************)
C20_SynonymOutputIsClean ==
  call.state = "done" /\ call.use_synonyms =>
    /\ \A w \in Lexicon(engine.kind, ResolvedLanguage(engine, call.text)) :
         ~StandsAlone(call.result.cleaned_text, w)
    /\ call.again => call.result.cleaned_text = call.text


(***************************************************************************)
(* C14.  An empty or whitespace-only input short-circuits: the call goes  *)
(* from its entry straight to the result, with no language resolution,    *)
(* matching or substitution stage, and the result has the input as        *)
(* cleaned text and no matched term.                                      *)
(***************************************************************************)
\* the text is empty or has whitespace only
IsBlank(text) == \A i \in 1..Len(text) : IsSpace(text[i])

C14_BlankInputShortCircuits ==
  \A c \in Callers :
    threads[c].pc \notin {"Idle", "Called"} /\ IsBlank(threads[c].text) =>
      /\ threads[c].pc = "Done"
      /\ threads[c].trace = <<>>
      /\ threads[c].result.cleaned_text = threads[c].text
      /\ threads[c].result.profane_words = {}

(***************************************************************************)
(* C15.  Per-call ordering: the stages of a call on a non-empty text come *)
(* in the order language resolution, matching, substitution, result.  On  *)
(* a fixed-language engine the script detector is not invoked and the     *)
(* resolved language is the configured one; on an auto-detect engine it   *)
(* is detect_language(text) and the matched terms are of that language's  *)
(* lexicon.  The resolved language of every result is one of en, hi, ta,  *)
(* te.                                                                    *)
(***************************************************************************)
Stages == <<"LanguageResolved", "MatchesFound", "Substituted">>

C15_StagesInOrderLanguageResolved ==
  \A c \in Callers :
    LET t == threads[c]
    IN  t.pc # "Idle" =>
          /\ Len(t.trace) <= Len(Stages)
          /\ t.trace = SubSeq(Stages, 1, Len(t.trace))
          /\ t.pc = "Substituted" => t.trace = Stages
          /\ t.lang # "none" =>
               /\ t.lang \in SUPPORTED_LANGUAGES
               /\ IF engine.auto_detect
                  THEN /\ t.lang = FirstScriptPresent(t.text)
                       /\ Range(t.found) \subseteq Lexicon(engine.kind, t.lang)
                  ELSE /\ ~t.detector
                       /\ t.lang = engine.language
               /\ t.pc = "Done" /\ "detected_language" \in DOMAIN t.result =>
                    t.result.detected_language = t.lang

(***************************************************************************)
(* C17.  Sharing without locks: no stage of a filter call changes the     *)
(* engine (its word lists, synonym tables, language, mode) or the         *)
(* library's word list, and whatever the interleaving of the callers'     *)
(* stages, the result of each call is a result the call returns when it   *)
(* runs alone on the engine.                                              *)
(***************************************************************************)
C17_SharedEngineCallsAreIsolated ==
  /\ [](\A c \in Callers :
          threads[c].pc \in {"Substituted", "Done"} =>
            threads[c].result \in
              ResultsOfAllOrders(engine, threads[c].text, threads[c].use_synonyms))
  /\ [][threads' # threads =>
          UNCHANGED <<engine, CENSOR_WORDSET, BETTER_PROFANITY_AVAILABLE>>]_vars

\* two callers are inside calls on one engine at once, at different stages,
\* one of them with two matched terms
C17_TwoCallsInterleaved ==
  /\ threads["caller1"].pc = "Done"
  /\ Len(threads["caller1"].found) = 2
  /\ threads["caller2"].pc = "MatchesFound"
  /\ threads["caller2"].text # threads["caller1"].text


(***************************************************************************)
(* C18.  The administrative operations are append-only: add_custom_words  *)
(* and add_synonym leave every term of the word lists in them and every   *)
(* synonym that a term had as it was, and a term that add_custom_words    *)
(* added is reported by every later filter call whose text contains it.   *)
(***************************************************************************)
\* the terms of the engine's list that add_custom_words put there
AddedTerms(self) ==
  Range(ForLanguage(self.custom_profane_words, self.language))
    \ Range(ForLanguage(custom_profane_words, self.language))

\* every entry of the synonym table `before` is an entry of `after`
SynonymsKept(before, after) ==
  \A i \in 1..Len(before) :
    DictHas(after, before[i][1]) /\ DictGet(after, before[i][1]) = before[i][2]

C18_AdministrativeOperationsAppendOnly ==
  /\ [][engine.kind = "TextSafetyLayer" /\ engine'.kind = "TextSafetyLayer" =>
          /\ \A l \in DOMAIN engine.custom_profane_words :
               Range(engine.custom_profane_words[l])
                 \subseteq Range(ForLanguage(engine'.custom_profane_words, l))
          /\ CENSOR_WORDSET \subseteq CENSOR_WORDSET'
          /\ \A l \in DOMAIN engine.synonym_map :
               SynonymsKept(engine.synonym_map[l],
                            ForLanguage(engine'.synonym_map, l))]_vars
  /\ [](call.state = "done" /\ engine.kind = "TextSafetyLayer" =>
          \A w \in AddedTerms(engine) :
            Contains(Lower(call.text), Lower(w)) =>
              w \in call.result.profane_words)

(***************************************************************************)
(* C21.  Engine isolation: constructing a second engine, or calling       *)
(* add_custom_words on another engine, never changes the result that an   *)
(* already constructed engine returns for any text in any mode.           *)
(***************************************************************************)
\* the results the engine returns for the text when the library holds the
\* given word list, one for each order of the matched terms
ResultsWith(self, wordset, text, use_synonyms) ==
  {FilterResult(self, BETTER_PROFANITY_AVAILABLE, wordset, text,
                use_synonyms, found) :
     found \in FoundOrders(self, wordset, text)}

C21_EngineIsolation ==
  [][(engine # NoEngine /\ engine' = engine /\ engine2' # engine2) =>
       \A text \in AdminTexts, use_synonyms \in BOOLEAN :
         ResultsWith(engine, CENSOR_WORDSET', text, use_synonyms)
           = ResultsWith(engine, CENSOR_WORDSET, text, use_synonyms)]_vars

=============================================================================
